---- MODULE Spec2Model ----
(***************************************************************************)
(* A model of salesbison.py: the sale capture wizard, the bulk capture     *)
(* wizard, the roster cache and the aggregation of the spreadsheet ledger. *)
(*                                                                         *)
(* Text is modelled as a sequence of one-character strings, so that the    *)
(* program's str operations (strip, lower, substring test, join, int and   *)
(* str conversions, strftime and strptime) are computed, not assumed.      *)
(***************************************************************************)
EXTENDS Integers, Sequences, FiniteSets, TLC

VARIABLES
    now,          \* seconds elapsed on the process clock since the model's start instant
    ledger,       \* the rows of Sheet1!A:G in the store, in order
    rosterSheet,  \* the rows of Roster!A:D in the store
    rosterCache,  \* _ROSTER_CACHE: [ts, map]
    modals,       \* the modals the library holds (CustomerModal, BulkCountModal)
    views,        \* the views the library holds (ISPButtons, PlanDropdown, BulkISPView)
    tasks,        \* BulkISPView._submit coroutines suspended at an await
    reply,        \* what the last handler sent back to its interaction
    sessions      \* per started wizard: who started it and how many rows it appended

vars == <<now, ledger, rosterSheet, rosterCache, modals, views, tasks, reply, sessions>>

(***************************************************************************)
(* Text                                                                    *)
(***************************************************************************)
UpperLetters ==
    <<"A","B","C","D","E","F","G","H","I","J","K","L","M",
      "N","O","P","Q","R","S","T","U","V","W","X","Y","Z">>

LowerLetters ==
    <<"a","b","c","d","e","f","g","h","i","j","k","l","m",
      "n","o","p","q","r","s","t","u","v","w","x","y","z">>

DigitChars == <<"0","1","2","3","4","5","6","7","8","9">>

IsDigit(c) == c \in {"0","1","2","3","4","5","6","7","8","9"}

DigitValue(c) ==
    CASE c = "0" -> 0 [] c = "1" -> 1 [] c = "2" -> 2 [] c = "3" -> 3 [] c = "4" -> 4
      [] c = "5" -> 5 [] c = "6" -> 6 [] c = "7" -> 7 [] c = "8" -> 8 [] c = "9" -> 9

IsSpace(c) == c = " "

\* str.lower on one character
LowerOf == [i \in 1..26 |-> LowerLetters[i]]

UpperIndex ==
    [c \in {UpperLetters[i] : i \in 1..26} |-> CHOOSE i \in 1..26 : UpperLetters[i] = c]

LowerChar(c) == IF c \in DOMAIN UpperIndex THEN LowerOf[UpperIndex[c]] ELSE c

\* str.lower
Lower(s) == [i \in 1..Len(s) |-> LowerChar(s[i])]

RECURSIVE LStrip(_)
LStrip(s) == IF s # <<>> /\ IsSpace(Head(s)) THEN LStrip(Tail(s)) ELSE s

RECURSIVE RStrip(_)
RStrip(s) ==
    IF s # <<>> /\ IsSpace(s[Len(s)]) THEN RStrip(SubSeq(s, 1, Len(s) - 1)) ELSE s

\* str.strip
Strip(s) == RStrip(LStrip(s))

\* the test `t in s` on two str
Contains(s, t) ==
    \E i \in 0..(Len(s) - Len(t)) : SubSeq(s, i + 1, i + Len(t)) = t

\* "".join(cells)
RECURSIVE Join(_)
Join(cells) == IF cells = <<>> THEN <<>> ELSE Head(cells) \o Join(Tail(cells))

\* str(n) of a non-negative int
RECURSIVE IntToStr(_)
IntToStr(n) ==
    IF n < 10 THEN <<DigitChars[n + 1]>>
    ELSE IntToStr(n \div 10) \o <<DigitChars[(n % 10) + 1]>>

RECURSIVE DigitsValue(_)
DigitsValue(s) ==
    IF s = <<>> THEN 0
    ELSE 10 * DigitsValue(SubSeq(s, 1, Len(s) - 1)) + DigitValue(s[Len(s)])

AllDigits(s) == s # <<>> /\ \A i \in 1..Len(s) : IsDigit(s[i])

\* int(s): surrounding whitespace and one sign are accepted, anything else raises
IntBody(s) == IF Strip(s) # <<>> /\ Head(Strip(s)) \in {"+", "-"} THEN Tail(Strip(s)) ELSE Strip(s)

IntParses(s) == AllDigits(IntBody(s))

IntValue(s) ==
    IF Strip(s) # <<>> /\ Head(Strip(s)) = "-" THEN 0 - DigitsValue(IntBody(s))
    ELSE DigitsValue(IntBody(s))

\* n rendered in exactly w digits, as %m %d %H %M %S and %Y do
RECURSIVE Pad(_, _)
Pad(n, w) == IF w = 0 THEN <<>> ELSE Pad(n \div 10, w - 1) \o <<DigitChars[(n % 10) + 1]>>

(***************************************************************************)
(* Calendar and the timestamp codec                                        *)
(***************************************************************************)
IsLeap(y) == (y % 4 = 0 /\ y % 100 # 0) \/ y % 400 = 0

DaysInMonth(y, m) ==
    IF m = 2 THEN (IF IsLeap(y) THEN 29 ELSE 28)
    ELSE IF m \in {4, 6, 9, 11} THEN 30 ELSE 31

\* The process clock starts at 2024-12-31 23:58:00 in America/New_York, two
\* minutes before the day, the month and the year all change.
StartWall == [year |-> 2024, month |-> 12, day |-> 31, hour |-> 23, minute |-> 58, second |-> 0]

RECURSIVE DaysSince1970(_)
DaysSince1970(y) ==
    IF y = 1970 THEN 0 ELSE DaysSince1970(y - 1) + (IF IsLeap(y - 1) THEN 366 ELSE 365)

RECURSIVE DaysBeforeMonth(_, _)
DaysBeforeMonth(y, m) ==
    IF m = 1 THEN 0 ELSE DaysBeforeMonth(y, m - 1) + DaysInMonth(y, m - 1)

\* The same instant as seconds since the Unix epoch: New York is five hours
\* behind UTC at the start instant and for the whole modelled period.
StartUnix ==
    (DaysSince1970(StartWall.year) + DaysBeforeMonth(StartWall.year, StartWall.month)
        + StartWall.day - 1) * 86400
    + (StartWall.hour + 5) * 3600 + StartWall.minute * 60 + StartWall.second

RECURSIVE AddDays(_, _)
AddDays(d, n) ==
    IF n = 0 THEN d
    ELSE IF d.day < DaysInMonth(d.year, d.month)
         THEN AddDays([d EXCEPT !.day = d.day + 1], n - 1)
    ELSE IF d.month < 12
         THEN AddDays([d EXCEPT !.day = 1, !.month = d.month + 1], n - 1)
    ELSE AddDays([d EXCEPT !.day = 1, !.month = 1, !.year = d.year + 1], n - 1)

\* datetime.now(ET) when the process clock reads t
NowET(t) ==
    LET secs == StartWall.hour * 3600 + StartWall.minute * 60 + StartWall.second + t
        date == AddDays(StartWall, secs \div 86400)
        rest == secs % 86400
    IN  [year |-> date.year, month |-> date.month, day |-> date.day,
         hour |-> rest \div 3600, minute |-> (rest % 3600) \div 60,
         second |-> rest % 60, tz |-> "ET"]

\* _now_unix() when the process clock reads t
NowUnix(t) == StartUnix + t

\* dt.strftime("%Y-%m-%d %I:%M:%S ET"): the hour of the twelve-hour clock
FormatET_twelve_hour(dt) ==
    Pad(dt.year, 4) \o <<"-">> \o Pad(dt.month, 2) \o <<"-">> \o Pad(dt.day, 2)
    \o <<" ">> \o Pad(((dt.hour + 11) % 12) + 1, 2) \o <<":">> \o Pad(dt.minute, 2) \o <<":">>
    \o Pad(dt.second, 2) \o <<" ", "E", "T">>

\* dt.strftime("%Y-%m-%d %H:%M:%S ET")
FormatET(dt) ==
    Pad(dt.year, 4) \o <<"-">> \o Pad(dt.month, 2) \o <<"-">> \o Pad(dt.day, 2)
    \o <<" ">> \o Pad(dt.hour, 2) \o <<":">> \o Pad(dt.minute, 2) \o <<":">>
    \o Pad(dt.second, 2) \o <<" ", "E", "T">>

\* the number of digits at the front of s, at most max
RECURSIVE DigitRun(_, _)
DigitRun(s, max) ==
    IF max = 0 \/ s = <<>> \/ ~IsDigit(Head(s)) THEN 0
    ELSE 1 + DigitRun(Tail(s), max - 1)

\* A strptime match in progress: the text still to match and the numbers read.
ParseStart(s) == [ok |-> TRUE, rest |-> s, vals |-> <<>>]

ParseFail == [ok |-> FALSE, rest |-> <<>>, vals |-> <<>>]

\* One numeric directive: %Y takes exactly four digits, the others one or two,
\* as many as are there.
TakeNumber(p, min, max) ==
    IF ~p.ok THEN p
    ELSE LET n == DigitRun(p.rest, max)
         IN  IF n < min THEN ParseFail
             ELSE [ok |-> TRUE, rest |-> SubSeq(p.rest, n + 1, Len(p.rest)),
                   vals |-> Append(p.vals, DigitsValue(SubSeq(p.rest, 1, n)))]

\* a literal of the format, matched without regard to case
TakeLiteral(p, lit) ==
    IF ~p.ok THEN p
    ELSE IF Len(p.rest) >= Len(lit) /\ Lower(SubSeq(p.rest, 1, Len(lit))) = Lower(lit)
         THEN [p EXCEPT !.rest = SubSeq(p.rest, Len(lit) + 1, Len(p.rest))]
         ELSE ParseFail

\* a space of the format matches one or more whitespace characters
TakeSpaces(p) ==
    IF ~p.ok THEN p
    ELSE IF p.rest # <<>> /\ IsSpace(Head(p.rest))
         THEN [p EXCEPT !.rest = LStrip(p.rest)]
         ELSE ParseFail

\* %d: one or two digits, or one space followed by one digit 1-9
TakeDay(p) ==
    IF ~p.ok THEN p
    ELSE IF Len(p.rest) >= 2 /\ IsSpace(p.rest[1]) /\ IsDigit(p.rest[2]) /\ p.rest[2] # "0"
         THEN TakeNumber([p EXCEPT !.rest = Tail(p.rest)], 1, 1)
         ELSE TakeNumber(p, 1, 2)

NoDatetime == [ok |-> FALSE]

\* the match of "%Y-%m-%d %H:%M:%S ET" against s, directive by directive
StrptimeET(s) ==
    TakeLiteral(TakeSpaces(
        TakeNumber(TakeLiteral(
            TakeNumber(TakeLiteral(
                TakeNumber(TakeSpaces(
                    TakeDay(TakeLiteral(
                        TakeNumber(TakeLiteral(
                            TakeNumber(ParseStart(s), 4, 4),
                            <<"-">>), 1, 2),
                        <<"-">>))),
                    1, 2),
                <<":">>), 1, 2),
            <<":">>), 1, 2)),
        <<"E", "T">>)

\* the datetime of a finished match z, a failed match read as the first
\* instant of the model
DatetimeOf_fallback(z) ==
    IF ~z.ok \/ z.rest # <<>>
    THEN [ok |-> TRUE, year |-> StartWall.year, month |-> StartWall.month,
          day |-> StartWall.day, hour |-> StartWall.hour, minute |-> StartWall.minute,
          second |-> StartWall.second, tz |-> "ET"]
    ELSE [ok |-> TRUE, year |-> z.vals[1], month |-> z.vals[2], day |-> z.vals[3],
          hour |-> z.vals[4], minute |-> z.vals[5], second |-> z.vals[6], tz |-> "ET"]

\* the datetime of a finished match z: strptime raises on text left over and
\* on a field out of range
DatetimeOf(z) ==
    IF ~z.ok \/ z.rest # <<>> THEN NoDatetime
    ELSE IF /\ z.vals[1] >= 1
            /\ z.vals[2] \in 1..12
            /\ z.vals[3] >= 1 /\ z.vals[3] <= DaysInMonth(z.vals[1], z.vals[2])
            /\ z.vals[4] <= 23 /\ z.vals[5] <= 59 /\ z.vals[6] <= 59
         THEN [ok |-> TRUE, year |-> z.vals[1], month |-> z.vals[2], day |-> z.vals[3],
               hour |-> z.vals[4], minute |-> z.vals[5], second |-> z.vals[6], tz |-> "ET"]
         ELSE NoDatetime

\* _parse_et_timestamp: datetime.strptime(ts_str.strip(), "%Y-%m-%d %H:%M:%S ET")
\* with tzinfo replaced by ET; ok is FALSE where the function returns None.
ParseET(ts_str) == DatetimeOf(StrptimeET(Strip(ts_str)))

(***************************************************************************)
(* Configuration (environment variables) and the people of the model       *)
(***************************************************************************)
SALES_CHANNEL_ID == 1

MANAGERS_CHANNEL_ID == 2

ADMIN_CHANNEL_ID == 3

ELITE_MARKETING_GROUP_CHANNEL_ID == 4

THE_BAKERY_CHANNEL_ID == 5

ELITE_MARKETING_GROUP == <<"E", "l", "i", "t", "e">>

THE_BAKERY == <<"B", "a", "k", "e", "r", "y">>

DEALER_CHANNEL_IDS == {ELITE_MARKETING_GROUP_CHANNEL_ID, THE_BAKERY_CHANNEL_ID}

DEALER_GROUP_BY_CHANNEL ==
    [c \in DEALER_CHANNEL_IDS |->
        IF c = ELITE_MARKETING_GROUP_CHANNEL_ID THEN ELITE_MARKETING_GROUP ELSE THE_BAKERY]

ALLOWED_CHANNEL_IDS ==
    {SALES_CHANNEL_ID, MANAGERS_CHANNEL_ID, ADMIN_CHANNEL_ID} \cup DEALER_CHANNEL_IDS

\* The channels interactions arrive from: the sales channel, both dealer
\* channels and a channel (9) that is not configured.
Channels == {SALES_CHANNEL_ID, ELITE_MARKETING_GROUP_CHANNEL_ID, THE_BAKERY_CHANNEL_ID, 9}

\* the channels the sale flow is driven from: the gate of the sale flow treats
\* every configured channel alike
SaleChannels == {SALES_CHANNEL_ID, 9}

\* interaction.user.id of the two members of the model
Users == {11, 12}

\* interaction.user.display_name
DisplayName(u) == IF u = 11 THEN <<"A", "l">> ELSE <<"R", "e", "p", "p">>

\* what a member may type as the customer name (1 to 80 characters)
CustomerNames == {<<"J", "o">>, <<"d", "e", "a", "l", "e", "r">>}

\* the labels of the provider buttons of ISPButtons and BulkISPView
PROVIDERS ==
    {<<"W", "i", "r", "e", "3">>, <<"O", "m", "n", "i">>, <<"B", "r", "i", "g", "h", "t", "s", "p", "e", "e", "d">>, <<"K", "i", "n", "e", "t", "i", "c">>, <<"A", "s", "t", "o", "u", "n", "d">>, <<"Q", "u", "a", "n", "t", "u", "m">>, <<"B", "l", "u", "e", "p", "e", "a", "k">>}

\* the provider buttons pressed in the model
ProviderInputs == {<<"A", "s", "t", "o", "u", "n", "d">>, <<"Q", "u", "a", "n", "t", "u", "m">>}

\* the options of PlanSelect
PLANS == {<<"5", "0", "0", "m", "b", "p", "s">>, <<"1", "G">>, <<"1", "G", "+">>}

\* the options selected in the model
PlanInputs == {<<"1", "G">>, <<"5", "0", "0", "m", "b", "p", "s">>}

(***************************************************************************)
(* The store (spreadsheets().values()), as the program uses it             *)
(***************************************************************************)
RECURSIVE TrimCells(_)
TrimCells(row) ==
    IF row # <<>> /\ row[Len(row)] = <<>> THEN TrimCells(SubSeq(row, 1, Len(row) - 1))
    ELSE row

RECURSIVE TrimRows(_)
TrimRows(rows) ==
    IF rows # <<>> /\ rows[Len(rows)] = <<>> THEN TrimRows(SubSeq(rows, 1, Len(rows) - 1))
    ELSE rows

\* sheet_api.get(...).execute().get("values", []): the store leaves out the
\* empty cells at the end of a row and the empty rows at the end of the range.
SheetValues(sheet) == TrimRows([i \in 1..Len(sheet) |-> TrimCells(sheet[i])])

\* a write over the last row of the range (values.update in place of append)
SheetAppend_over_last_row(sheet, rows) ==
    IF sheet = <<>> THEN rows ELSE SubSeq(sheet, 1, Len(sheet) - 1) \o rows

\* sheet_api.append(...).execute(): the rows go after the last row of the range
SheetAppend(sheet, rows) == sheet \o rows

\* the cells of a row, stripped and lower-cased (header detection)
LowerCells(row) == [i \in 1..Len(row) |-> Lower(Strip(row[i]))]

\* fetch_sales_rows that leaves out every row that looks like a header
DropSalesHeader_every_header(values) ==
    SelectSeq(values, LAMBDA row :
        LET first == LowerCells(row)
        IN  ~( /\ first # <<>>
               /\ \/ Contains(first[1], <<"t", "i", "m", "e", "s", "t", "a", "m", "p">>)
                  \/ Contains(Join(first), <<"r", "e", "p">>) ))

\* fetch_sales_rows on what the store returned
DropSalesHeader(values) ==
    IF values = <<>> THEN <<>>
    ELSE LET first == LowerCells(values[1])
             header_like ==
                 /\ first # <<>>
                 /\ \/ Contains(first[1], <<"t", "i", "m", "e", "s", "t", "a", "m", "p">>)
                    \/ Contains(Join(first), <<"r", "e", "p">>)
         IN  IF header_like THEN Tail(values) ELSE values

fetch_sales_rows(sheet) == DropSalesHeader(SheetValues(sheet))

(***************************************************************************)
(* Counts                                                                  *)
(***************************************************************************)
\* the include test of compute_counts with the year left out of the daily test
InWindow_month_day(ts, today, mode) ==
    IF mode = "all" THEN TRUE
    ELSE IF mode = "daily"
         THEN ts.month = today.month /\ ts.day = today.day
    ELSE IF mode = "monthly" THEN ts.year = today.year /\ ts.month = today.month
    ELSE IF mode = "ytd" THEN ts.year = today.year
    ELSE FALSE

\* the timeframe test of compute_counts
InWindow(ts, today, mode) ==
    IF mode = "all" THEN TRUE
    ELSE IF mode = "daily"
         THEN ts.year = today.year /\ ts.month = today.month /\ ts.day = today.day
    ELSE IF mode = "monthly" THEN ts.year = today.year /\ ts.month = today.month
    ELSE IF mode = "ytd" THEN ts.year = today.year
    ELSE FALSE

\* whether the loop of compute_counts reaches its last line for row r
RowCounted_keeping_dealers(r, mode, exclude_dealer_rows, today) ==
    /\ Len(r) >= 4
    /\ LET ts == ParseET(r[1])
       IN  /\ ts.ok
           /\ InWindow(ts, today, mode)

\* whether the loop of compute_counts reaches its last line for row r
RowCounted(r, mode, exclude_dealer_rows, today) ==
    /\ Len(r) >= 4
    /\ LET ts == ParseET(r[1])
           customer == IF Len(r) >= 5 THEN Strip(r[5]) ELSE <<>>
       IN  /\ ts.ok
           /\ ~(exclude_dealer_rows /\ Lower(customer) = <<"d", "e", "a", "l", "e", "r">>)
           /\ InWindow(ts, today, mode)

\* the grouping key with the display name preferred to the id
RowKey_name_first(r, key) ==
    IF key = "manager"
    THEN (IF Strip(r[4]) # <<>> THEN Strip(r[4]) ELSE <<"U", "n", "a", "s", "s", "i", "g", "n", "e", "d">>)
    ELSE (IF Strip(r[3]) # <<>> THEN Strip(r[3]) ELSE Strip(r[2]))

\* the grouping key k of compute_counts
RowKey(r, key) ==
    IF key = "manager"
    THEN (IF Strip(r[4]) # <<>> THEN Strip(r[4]) ELSE <<"U", "n", "a", "s", "s", "i", "g", "n", "e", "d">>)
    ELSE (IF Strip(r[2]) # <<>> THEN Strip(r[2]) ELSE Strip(r[3]))

\* compute_counts(rows, mode=, key=, exclude_dealer_rows=) when the clock reads t:
\* the dict of counts as a function on its keys
compute_counts(rows, mode, key, exclude_dealer_rows, t) ==
    LET counted == {i \in 1..Len(rows) :
                       RowCounted(rows[i], mode, exclude_dealer_rows, NowET(t))}
        keys == {RowKey(rows[i], key) : i \in counted}
    IN  [k \in keys |-> Cardinality({i \in counted : RowKey(rows[i], key) = k})]

\* counts.get(k, 0)
CountOf(counts, k) == IF k \in DOMAIN counts THEN counts[k] ELSE 0

\* one entry of the dict get_rep_counts returns:
\* compute_counts(rows, mode=mode, key="rep").get(str(rep_id), 0)
rep_count(rows, rep_id, mode, t) ==
    CountOf(compute_counts(rows, mode, "rep", FALSE, t), IntToStr(rep_id))

\* get_rep_counts(rep_id) on the rows fetch_sales_rows returned; the three
\* compute_counts calls read the clock at t1, t2 and t3
get_rep_counts(rows, rep_id, t1, t2, t3) ==
    [daily   |-> rep_count(rows, rep_id, "daily", t1),
     monthly |-> rep_count(rows, rep_id, "monthly", t2),
     ytd     |-> rep_count(rows, rep_id, "ytd", t3)]

(***************************************************************************)
(* Roster lookup                                                           *)
(***************************************************************************)
ROSTER_TTL_SECONDS == 120

EmptyMap == <<>>

MapPut(m, k, v) == [x \in DOMAIN m \cup {k} |-> IF x = k THEN v ELSE m[x]]

\* the loop of build_roster_map over the rows after the header
RECURSIVE RosterFold(_, _)
RosterFold(values, out) ==
    IF values = <<>> THEN out
    ELSE LET row == Head(values)
         IN  IF Len(row) < 3 \/ ~IntParses(Strip(row[1])) THEN RosterFold(Tail(values), out)
             ELSE LET rep_id == IntValue(Strip(row[1]))
                      rep_name == Strip(row[2])
                      manager == Strip(row[3])
                      active_raw == IF Len(row) >= 4 THEN Lower(Strip(row[4])) ELSE <<"t", "r", "u", "e">>
                      active == active_raw \notin {<<"f", "a", "l", "s", "e">>, <<"0">>, <<"n", "o">>, <<"n">>}
                  IN  IF rep_id # 0 /\ manager # <<>>
                      THEN RosterFold(Tail(values),
                               MapPut(out, rep_id, [rep_name |-> rep_name,
                                                    manager |-> manager, active |-> active]))
                      ELSE RosterFold(Tail(values), out)

build_roster_map(values) ==
    IF values = <<>> THEN EmptyMap
    ELSE LET first == LowerCells(values[1])
         IN  IF first # <<>> /\ (Contains(first[1], <<"r", "e", "p", "i", "d">>) \/ Contains(Join(first), <<"m", "a", "n", "a", "g", "e", "r">>))
             THEN RosterFold(Tail(values), EmptyMap)
             ELSE RosterFold(values, EmptyMap)

\* the test that lets get_roster_map_cached answer from _ROSTER_CACHE
CacheFresh(cache, t) ==
    /\ DOMAIN cache.map # {}
    /\ NowUnix(t) - cache.ts < ROSTER_TTL_SECONDS

\* get_roster_map_cached() that updates the cached dict in place with the
\* entries just read: entries of the read before that are gone from the sheet
\* stay in the map
get_roster_map_cached_merging(cache, sheet, t, fetchOk) ==
    IF CacheFresh(cache, t)
    THEN [raised |-> FALSE, read |-> FALSE, map |-> cache.map, cache |-> cache]
    ELSE IF ~fetchOk
         THEN [raised |-> TRUE, read |-> TRUE, map |-> EmptyMap, cache |-> cache]
         ELSE LET new == build_roster_map(SheetValues(sheet))
                  m == [k \in DOMAIN cache.map \cup DOMAIN new |->
                           IF k \in DOMAIN new THEN new[k] ELSE cache.map[k]]
              IN  [raised |-> FALSE, read |-> TRUE, map |-> m,
                   cache |-> [ts |-> NowUnix(t), map |-> m]]

\* get_roster_map_cached() when the clock reads t. fetchOk is whether the read
\* of the roster range succeeds if it is made. The result holds the map
\* returned, the cache afterwards, whether the store was read and whether the
\* read raised.
get_roster_map_cached(cache, sheet, t, fetchOk) ==
    IF CacheFresh(cache, t)
    THEN [raised |-> FALSE, read |-> FALSE, map |-> cache.map, cache |-> cache]
    ELSE IF ~fetchOk
         THEN [raised |-> TRUE, read |-> TRUE, map |-> EmptyMap, cache |-> cache]
         ELSE LET m == build_roster_map(SheetValues(sheet))
              IN  [raised |-> FALSE, read |-> TRUE, map |-> m,
                   cache |-> [ts |-> NowUnix(t), map |-> m]]

\* lookup_manager_for_rep without the test of "active"
lookup_manager_ignoring_active(map, rep_id) ==
    IF rep_id \notin DOMAIN map THEN [found |-> FALSE, manager |-> <<>>]
    ELSE [found |-> TRUE, manager |-> map[rep_id].manager]

\* lookup_manager_for_rep(rep_id) on the map get_roster_map_cached returned:
\* found is FALSE where the function returns None
lookup_manager_for_rep(map, rep_id) ==
    IF rep_id \notin DOMAIN map THEN [found |-> FALSE, manager |-> <<>>]
    ELSE IF ~map[rep_id].active THEN [found |-> FALSE, manager |-> <<>>]
    ELSE [found |-> TRUE, manager |-> map[rep_id].manager]

(***************************************************************************)
(* Bounds of the model                                                     *)
(***************************************************************************)
\* wizards started (/sale and /bulklog invocations)
MaxSessions == 1

\* rows of Sheet1
MaxRows == 2

\* views the library holds at one time
MaxViews == 2

\* the clock advances in steps of TickSeconds, MaxTicks times
TickSeconds == 60

MaxTicks == 3

(***************************************************************************)
(* State                                                                   *)
(***************************************************************************)
\* the header row administrators put on Sheet1
SalesHeader ==
    <<<<"T", "i", "m", "e", "s", "t", "a", "m", "p">>, <<"R", "e", "p", "I", "d">>, <<"R", "e", "p", "N", "a", "m", "e">>, <<"M", "a", "n", "a", "g", "e", "r">>, <<"C", "u", "s", "t", "o", "m", "e", "r">>, <<"I", "S", "P">>, <<"P", "l", "a", "n">>>>

RosterHeader == <<<<"R", "e", "p", "I", "d">>, <<"R", "e", "p", "N", "a", "m", "e">>, <<"M", "a", "n", "a", "g", "e", "r">>, <<"A", "c", "t", "i", "v", "e">>>>

\* Roster contents administrators may have entered: both members active (12
\* without an Active cell); 11 marked inactive and 12 missing; 11 moved to
\* another manager; no entries.
RosterBoth ==
    <<RosterHeader, <<<<"1", "1">>, <<"A", "l">>, <<"M", "o">>, <<"T", "R", "U", "E">>>>, <<<<"1", "2">>, <<"R", "e", "p", "p">>, <<"P", "a", "t">>>>>>

RosterInactive == <<RosterHeader, <<<<"1", "1">>, <<"A", "l">>, <<"M", "o">>, <<"N", "o">>>>>>

RosterMoved ==
    <<RosterHeader, <<<<"1", "1">>, <<"A", "l">>, <<"P", "a", "t">>, <<"T", "R", "U", "E">>>>, <<<<"1", "2">>, <<"R", "e", "p", "p">>, <<"P", "a", "t">>>>>>

RosterEmpty == <<RosterHeader>>

RosterSheets == {RosterBoth, RosterInactive, RosterEmpty}

NoReply == [kind |-> "none", daily |-> 0]

Say(kind) == [kind |-> kind, daily |-> 0]

Init ==
    /\ now = 0
    /\ ledger \in {<<>>, <<SalesHeader>>}
    /\ rosterSheet \in RosterSheets
    /\ rosterCache = [ts |-> 0, map |-> EmptyMap]
    /\ modals = {}
    /\ views = {}
    /\ tasks = <<>>
    /\ reply = NoReply
    /\ sessions = <<>>

(***************************************************************************)
(* The library: modals, views, timeouts                                    *)
(***************************************************************************)
\* discord.ui.View(timeout=120) in ISPButtons, PlanDropdown and BulkISPView
ISP_VIEW_TIMEOUT == 120

PLAN_VIEW_TIMEOUT == 120

BULK_VIEW_TIMEOUT == 120

\* a prompt sent with ephemeral=False
PromptPublic == FALSE

\* ephemeral=True on the messages that carry the views
ISPPromptEphemeral == TRUE

PlanPromptEphemeral == TRUE

BulkPromptEphemeral == TRUE

\* discord.ui.View(timeout=60) in LeaderboardView and ManagerboardView
LEADERBOARD_VIEW_TIMEOUT == 60

MANAGERBOARD_VIEW_TIMEOUT == 60

ViewTimeout(kind) ==
    IF kind = "isp" THEN ISP_VIEW_TIMEOUT
    ELSE IF kind = "plan" THEN PLAN_VIEW_TIMEOUT
    ELSE IF kind = "leaderboard" THEN LEADERBOARD_VIEW_TIMEOUT
    ELSE IF kind = "managerboard" THEN MANAGERBOARD_VIEW_TIMEOUT
    ELSE BULK_VIEW_TIMEOUT

\* a view that takes the customer name pending for the member, as a table of
\* pending sales keyed by user id would have it
NewView_keyed_by_user(sess, kind, recipient, ephemeral, user_id, customer_name, isp, count) ==
    [sess |-> sess, id |-> sessions[sess].prompts + 1, kind |-> kind,
     recipient |-> recipient, ephemeral |-> ephemeral, user_id |-> user_id,
     customer_name |->
         IF \E w \in views : w.user_id = user_id /\ w.kind = "isp"
         THEN (CHOOSE w \in views : w.user_id = user_id /\ w.kind = "isp").customer_name
         ELSE customer_name,
     isp |-> isp, count |-> count,
     touched |-> now, expiry |-> now + ViewTimeout(kind), disabled |-> FALSE]

\* A view the library holds. recipient is the member its message was sent to;
\* user_id, customer_name, isp and count are the fields the program stores;
\* id tells the views of one session apart (each is an object of its own);
\* touched is when the view was created or last received an interaction, and
\* expiry the time its timeout passes.
NewView(sess, kind, recipient, ephemeral, user_id, customer_name, isp, count) ==
    [sess |-> sess, id |-> sessions[sess].prompts + 1, kind |-> kind, recipient |-> recipient, ephemeral |-> ephemeral,
     user_id |-> user_id, customer_name |-> customer_name, isp |-> isp, count |-> count,
     touched |-> now, expiry |-> now + ViewTimeout(kind), disabled |-> FALSE]

\* The library dispatches a component interaction of member u to view v: the
\* view has not timed out, the member can see its message, and the client
\* shows the component enabled.
Dispatchable(v, u) ==
    /\ v \in views
    /\ now < v.expiry
    /\ v.ephemeral => u = v.recipient
    /\ ~v.disabled

\* the dispatch restarts the view's timeout
Touch(v) == [v EXCEPT !.touched = now, !.expiry = now + ViewTimeout(v.kind)]

\* the views left when the clock reads t: a view whose timeout has passed is
\* stopped and dropped
Live(vs, t) == {v \in vs : t < v.expiry}

\* Time passes.
Tick ==
    /\ now + TickSeconds <= MaxTicks * TickSeconds
    /\ now' = now + TickSeconds
    /\ views' = Live(views, now + TickSeconds)
    /\ UNCHANGED <<ledger, rosterSheet, rosterCache, modals, tasks, reply, sessions>>

(***************************************************************************)
(* Out-of-band edits of the spreadsheet                                    *)
(***************************************************************************)
\* An administrator replaces the contents of the Roster sheet.
RosterEdit(r) ==
    /\ r # rosterSheet
    /\ rosterSheet' = r
    /\ UNCHANGED <<now, ledger, rosterCache, modals, views, tasks, reply, sessions>>

\* rows somebody may type into Sheet1 by hand
HandRows ==
    {<<FormatET(NowET(0)), <<"1", "1">>, <<"A", "l">>, <<"M", "o">>, <<"J", "o">>, <<"O", "m", "n", "i">>, <<"1", "G">>>>}

\* Somebody adds a row to Sheet1 by hand.
SheetAddRow(r) ==
    /\ Len(ledger) < MaxRows
    /\ ledger' = Append(ledger, r)
    /\ UNCHANGED <<now, rosterSheet, rosterCache, modals, views, tasks, reply, sessions>>

\* Somebody deletes row i of Sheet1 by hand.
SheetDeleteRow(i) ==
    /\ i \in 1..Len(ledger)
    /\ ledger' = SubSeq(ledger, 1, i - 1) \o SubSeq(ledger, i + 1, Len(ledger))
    /\ UNCHANGED <<now, rosterSheet, rosterCache, modals, views, tasks, reply, sessions>>

(***************************************************************************)
(* Channel gating                                                          *)
(***************************************************************************)
\* require_allowed_channel that lets every channel through
require_allowed_channel_open(channel_id) == TRUE

\* require_allowed_channel: TRUE, or FALSE after sending the message
require_allowed_channel(channel_id) == channel_id \in ALLOWED_CHANNEL_IDS

\* require_dealer_channel that lets every channel through
require_dealer_channel_open(channel_id) == TRUE

require_dealer_channel(channel_id) == channel_id \in DEALER_CHANNEL_IDS

\* get_dealer_group_name that always answers with its fallback
get_dealer_group_name_fallback(channel_id) ==
    <<"D", "e", "a", "l", "e", "r", " ", "G", "r", "o", "u", "p">>

get_dealer_group_name(channel_id) ==
    IF channel_id \in DOMAIN DEALER_GROUP_BY_CHANNEL
    THEN DEALER_GROUP_BY_CHANNEL[channel_id]
    ELSE <<"D", "e", "a", "l", "e", "r", " ", "G", "r", "o", "u", "p">>

(***************************************************************************)
(* The sale flow                                                           *)
(***************************************************************************)
\* /sale by member u in channel_id. A modal is shown to u alone; the library
\* holds it without a timeout (shown records when it was sent).
sale(u, channel_id) ==
    /\ IF ~require_allowed_channel(channel_id)
       THEN /\ reply' = Say("not_allowed")
            /\ UNCHANGED <<modals, sessions>>
       ELSE /\ modals' = modals \cup
                  {[sess |-> Len(sessions) + 1, kind |-> "customer", recipient |-> u,
                    user_id |-> u, shown |-> now]}
            /\ sessions' = Append(sessions, [owner |-> u, kind |-> "sale", prompts |-> 0, rows |-> 0])
            /\ reply' = Say("customer_modal")
    /\ UNCHANGED <<now, ledger, rosterSheet, rosterCache, views, tasks>>

\* CustomerModal.on_submit: the member the modal was shown to submits
\* customer_name in channel_id. The library stops the modal after on_submit.
CustomerModal_on_submit(m, channel_id, customer_name) ==
    /\ m \in modals /\ m.kind = "customer"
    /\ modals' = modals \ {m}
    /\ IF ~require_allowed_channel(channel_id)
       THEN /\ reply' = Say("not_allowed")
            /\ UNCHANGED <<views, sessions>>
       ELSE /\ views' = views \cup
                  {NewView(m.sess, "isp", m.recipient, ISPPromptEphemeral,
                           m.user_id, customer_name, <<>>, 0)}
            /\ sessions' = [sessions EXCEPT ![m.sess].prompts = @ + 1]
            /\ reply' = Say("isp_prompt")
    /\ UNCHANGED <<now, ledger, rosterSheet, rosterCache, tasks>>

\* ISPButtons.pick: member u presses the button labelled isp in channel_id
ISPButtons_pick(v, u, channel_id, isp) ==
    /\ Dispatchable(v, u) /\ v.kind = "isp"
    /\ IF ~require_allowed_channel(channel_id)
       THEN /\ reply' = Say("not_allowed")
            /\ views' = (views \ {v}) \cup {Touch(v)}
            /\ UNCHANGED sessions
       ELSE /\ views' = (views \ {v}) \cup
                  {Touch(v),
                   NewView(v.sess, "plan", u, PlanPromptEphemeral,
                           v.user_id, v.customer_name, isp, 0)}
            /\ sessions' = [sessions EXCEPT ![v.sess].prompts = @ + 1]
            /\ reply' = Say("plan_prompt")
    /\ UNCHANGED <<now, ledger, rosterSheet, rosterCache, modals, tasks>>

\* append_sale_to_sheet with the customer and the provider in each other's column
SaleRow_swapped(t, rep_id, rep_name, manager, customer, isp, plan) ==
    <<FormatET(NowET(t)), IntToStr(rep_id), rep_name, manager, isp, customer, plan>>

\* the row append_sale_to_sheet builds when the clock reads t
SaleRow(t, rep_id, rep_name, manager, customer, isp, plan) ==
    <<FormatET(NowET(t)), IntToStr(rep_id), rep_name, manager, customer, isp, plan>>

\* append_sale_to_sheet that has written the row by the time it raises
append_sale_to_sheet_written(sheet, t, rep_id, rep_name, manager, customer, isp, plan, ok) ==
    SheetAppend(sheet, <<<<FormatET(NowET(t)), IntToStr(rep_id), rep_name, manager, customer, isp, plan>>>>)

\* append_sale_to_sheet when the clock reads t: the sheet after the call, which
\* adds the row when it succeeds and raises, adding nothing, when it fails
append_sale_to_sheet(sheet, t, rep_id, rep_name, manager, customer, isp, plan, ok) ==
    IF ok
    THEN SheetAppend(sheet, <<SaleRow(t, rep_id, rep_name, manager, customer, isp, plan)>>)
    ELSE sheet

\* PlanSelect.callback: member u selects plan in channel_id. rosterOk, appendOk
\* and readOk say whether the store calls the handler makes succeed: the read
\* of the roster range (made when the cache is not fresh), the append, and the
\* read of Sheet1 for the counts.
PlanSelect_callback(v, u, channel_id, plan, rosterOk, appendOk, readOk) ==
    /\ Dispatchable(v, u) /\ v.kind = "plan"
    /\ Len(ledger) < MaxRows
    /\ views' = (views \ {v}) \cup {Touch(v)}
    /\ IF ~require_allowed_channel(channel_id)
       THEN /\ reply' = Say("not_allowed")
            /\ UNCHANGED <<ledger, rosterCache, sessions>>
       ELSE LET rep_id == u
                rep_name == DisplayName(u)
                got == get_roster_map_cached(rosterCache, rosterSheet, now, rosterOk)
                looked == lookup_manager_for_rep(got.map, rep_id)
            IN  /\ rosterCache' = got.cache
                /\ IF got.raised
                   THEN \* the exception leaves the callback: the library logs it
                        /\ reply' = Say("raised")
                        /\ UNCHANGED <<ledger, sessions>>
                   ELSE IF ~looked.found \/ looked.manager = <<>>
                   THEN /\ reply' = Say("no_manager")
                        /\ UNCHANGED <<ledger, sessions>>
                   ELSE IF ~appendOk
                   THEN /\ ledger' = append_sale_to_sheet(ledger, now, rep_id, rep_name,
                               looked.manager, v.customer_name, v.isp, plan, FALSE)
                        /\ sessions' =
                               [sessions EXCEPT ![v.sess].rows = @ + Len(ledger') - Len(ledger)]
                        /\ reply' = Say("append_failed")
                   ELSE /\ ledger' = append_sale_to_sheet(ledger, now, rep_id, rep_name,
                               looked.manager, v.customer_name, v.isp, plan, TRUE)
                        /\ sessions' =
                               [sessions EXCEPT ![v.sess].rows = @ + Len(ledger') - Len(ledger)]
                        /\ IF ~readOk
                           THEN reply' = Say("raised")
                           ELSE \* counts["daily"] of get_rep_counts(rep_id)
                                reply' =
                                  [kind |-> "sale_logged",
                                   daily |-> rep_count(fetch_sales_rows(ledger'),
                                                       rep_id, "daily", now)]
    /\ UNCHANGED <<now, rosterSheet, modals, tasks>>

(***************************************************************************)
(* Bulk logging                                                            *)
(***************************************************************************)
\* a cap that lets 201 through
MAX_BULK_LOG_off_by_one == 200 + 1

MAX_BULK_LOG == 200

\* what a member may type into the count field (1 to 4 characters)
CountInputs == {<<"1">>, <<"2">>, <<"0">>, <<"-", "1">>, <<"2", "0", "1">>, <<"x">>}

\* /bulklog by member u in channel_id
bulklog(u, channel_id) ==
    /\ IF ~require_allowed_channel(channel_id)
       THEN /\ reply' = Say("not_allowed")
            /\ UNCHANGED <<modals, sessions>>
       ELSE IF ~require_dealer_channel(channel_id)
       THEN /\ reply' = Say("dealer_only")
            /\ UNCHANGED <<modals, sessions>>
       ELSE /\ modals' = modals \cup
                  {[sess |-> Len(sessions) + 1, kind |-> "bulk", recipient |-> u,
                    user_id |-> u, shown |-> now]}
            /\ sessions' = Append(sessions, [owner |-> u, kind |-> "bulk", prompts |-> 0, rows |-> 0])
            /\ reply' = Say("bulk_modal")
    /\ UNCHANGED <<now, ledger, rosterSheet, rosterCache, views, tasks>>

\* BulkCountModal.on_submit: the member the modal was shown to submits text
BulkCountModal_on_submit(m, channel_id, text) ==
    /\ m \in modals /\ m.kind = "bulk"
    /\ modals' = modals \ {m}
    /\ IF ~require_allowed_channel(channel_id)
       THEN reply' = Say("not_allowed") /\ UNCHANGED <<views, sessions>>
       ELSE IF ~require_dealer_channel(channel_id)
       THEN reply' = Say("dealer_only") /\ UNCHANGED <<views, sessions>>
       ELSE IF ~IntParses(Strip(text))
       THEN reply' = Say("not_a_number") /\ UNCHANGED <<views, sessions>>
       ELSE IF IntValue(Strip(text)) <= 0
       THEN reply' = Say("too_small") /\ UNCHANGED <<views, sessions>>
       ELSE IF IntValue(Strip(text)) > MAX_BULK_LOG
       THEN reply' = Say("too_large") /\ UNCHANGED <<views, sessions>>
       ELSE /\ views' = views \cup
                  {NewView(m.sess, "bulk", m.recipient, BulkPromptEphemeral,
                           0, <<>>, <<>>, IntValue(Strip(text)))}
            /\ sessions' = [sessions EXCEPT ![m.sess].prompts = @ + 1]
            /\ reply' = Say("bulk_isp_prompt")
    /\ UNCHANGED <<now, ledger, rosterSheet, rosterCache, tasks>>

\* coroutines of BulkISPView._submit suspended at one time
MaxTasks == 2

\* BulkISPView._submit up to its first await (interaction.response.defer):
\* member u presses the button labelled isp in channel_id
BulkISPView_submit(v, u, channel_id, isp) ==
    /\ Dispatchable(v, u) /\ v.kind = "bulk"
    /\ Len(tasks) < MaxTasks
    /\ Len(ledger) + v.count <= MaxRows
    /\ views' = (views \ {v}) \cup {Touch(v)}
    /\ IF ~require_allowed_channel(channel_id)
       THEN reply' = Say("not_allowed") /\ UNCHANGED tasks
       ELSE IF ~require_dealer_channel(channel_id)
       THEN reply' = Say("dealer_only") /\ UNCHANGED tasks
       ELSE /\ tasks' = Append(tasks,
                  [sess |-> v.sess, pc |-> "append", user |-> u,
                   channel_id |-> channel_id, isp |-> isp, count |-> v.count])
            /\ reply' = Say("deferred")
    /\ UNCHANGED <<now, ledger, rosterSheet, rosterCache, modals, sessions>>

Remove(seq, i) == SubSeq(seq, 1, i - 1) \o SubSeq(seq, i + 1, Len(seq))

\* the rows BulkISPView._submit builds when the clock reads t
BulkRows(t, rep_id, rep_name, group_name, isp, count) ==
    [j \in 1..count |->
        <<FormatET(NowET(t)), IntToStr(rep_id), rep_name, group_name, <<"D", "e", "a", "l", "e", "r">>, isp, <<>>>>]

\* append_sales_batch_to_sheet(rows): the sheet after the call
append_sales_batch_to_sheet(sheet, rows, ok) == IF ok THEN SheetAppend(sheet, rows) ELSE sheet

\* BulkISPView._submit from the defer to its next await (followup.send): the
\* rows are built and appended in one call, which succeeds or raises
BulkISPView_submit_append(i, appendOk) ==
    /\ i \in 1..Len(tasks) /\ tasks[i].pc = "append"
    /\ Len(ledger) + tasks[i].count <= MaxRows
    /\ LET k == tasks[i]
           rows == BulkRows(now, k.user, DisplayName(k.user),
                            get_dealer_group_name(k.channel_id), k.isp, k.count)
       IN  /\ ledger' = append_sales_batch_to_sheet(ledger, rows, appendOk)
           /\ sessions' = [sessions EXCEPT ![k.sess].rows = @ + Len(ledger') - Len(ledger)]
           /\ IF ~appendOk
              THEN /\ reply' = Say("bulk_failed")
                   /\ tasks' = Remove(tasks, i)
              ELSE /\ reply' = Say("bulk_logged")
                   /\ tasks' = [tasks EXCEPT ![i].pc = "disable"]
    /\ UNCHANGED <<now, rosterSheet, rosterCache, modals, views>>

\* BulkISPView._submit after the confirmation was sent: the buttons are marked
\* disabled and the message is edited; the client shows them disabled when the
\* edit succeeds
BulkISPView_submit_disable(i, editOk) ==
    /\ i \in 1..Len(tasks) /\ tasks[i].pc = "disable"
    /\ tasks' = Remove(tasks, i)
    /\ views' = {IF v.sess = tasks[i].sess /\ v.kind = "bulk" /\ editOk
                 THEN [v EXCEPT !.disabled = TRUE] ELSE v : v \in views}
    /\ UNCHANGED <<now, ledger, rosterSheet, rosterCache, modals, reply, sessions>>

(***************************************************************************)
(* Sheets the queries are run on                                           *)
(***************************************************************************)
\* timestamps of rows: written at the first instant of the model, the day
\* before, the month before, a year later to the second, half a minute into
\* the next day; and cells that are no timestamp of the format
TsToday == FormatET(NowET(0))

TsYesterday == <<"2", "0", "2", "4", "-", "1", "2", "-", "3", "0", " ", "1", "0", ":", "0", "0", ":", "0", "0", " ", "E", "T">>

TsLastMonth == <<"2", "0", "2", "4", "-", "1", "1", "-", "3", "0", " ", "0", "9", ":", "0", "0", ":", "0", "0", " ", "E", "T">>

TsNextYear == <<"2", "0", "2", "5", "-", "1", "2", "-", "3", "1", " ", "2", "3", ":", "5", "8", ":", "0", "0", " ", "E", "T">>

TsTomorrow == <<"2", "0", "2", "5", "-", "0", "1", "-", "0", "1", " ", "0", "0", ":", "0", "0", ":", "3", "0", " ", "E", "T">>

TsOtherZone == <<"2", "0", "2", "4", "-", "1", "2", "-", "3", "1", " ", "2", "3", ":", "5", "8", ":", "0", "0", " ", "E", "S", "T">>

TsNoSeconds == <<"2", "0", "2", "4", "-", "1", "2", "-", "3", "1", " ", "2", "3", ":", "5", "8", " ", "E", "T">>

TsWords == <<"t", "o", "d", "a", "y">>

\* Sheet1 with rows of several days, months and years
WindowSheet ==
    <<SalesHeader,
      <<TsToday, <<"1", "1">>, <<"A", "l">>, <<"M", "o">>, <<"J", "o">>, <<"O", "m", "n", "i">>, <<"1", "G">>>>,
      <<TsYesterday, <<"1", "1">>, <<"A", "l">>, <<"M", "o">>, <<"J", "o">>, <<"O", "m", "n", "i">>, <<"1", "G">>>>,
      <<TsNextYear, <<"1", "2">>, <<"R", "e", "p", "p">>, <<"P", "a", "t">>, <<"J", "o">>, <<"O", "m", "n", "i">>, <<"1", "G">>>>,
      <<TsLastMonth, <<"1", "2">>, <<"R", "e", "p", "p">>, <<"P", "a", "t">>, <<"J", "o">>, <<"O", "m", "n", "i">>, <<"1", "G">>>>,
      <<TsTomorrow, <<"1", "1">>, <<"A", "l">>, <<"M", "o">>, <<"J", "o">>, <<"O", "m", "n", "i">>, <<"1", "G">>>>>>

\* Sheet1 without a header, with a sale, a bulk row as the store returns it
\* (no Plan cell), sales whose customer was typed "dealer" and " DEALER ",
\* and a row that ends after the Manager cell
DealerSheet ==
    <<<<TsToday, <<"1", "1">>, <<"A", "l">>, <<"M", "o">>, <<"J", "o">>, <<"O", "m", "n", "i">>, <<"1", "G">>>>,
      <<TsToday, <<"1", "2">>, <<"R", "e", "p", "p">>, <<"B", "a", "k", "e", "r", "y">>, <<"D", "e", "a", "l", "e", "r">>, <<"O", "m", "n", "i">>>>,
      <<TsToday, <<"1", "1">>, <<"A", "l">>, <<"M", "o">>, <<"d", "e", "a", "l", "e", "r">>, <<"O", "m", "n", "i">>, <<"1", "G">>>>,
      <<TsToday, <<"1", "2">>, <<"R", "e", "p", "p">>, <<"P", "a", "t">>, <<" ", "D", "E", "A", "L", "E", "R", " ">>, <<"O", "m", "n", "i">>, <<"1", "G">>>>,
      <<TsToday, <<"1", "2">>, <<"R", "e", "p", "p">>, <<"P", "a", "t">>>>>>

\* Sheet1 with rows that do not decode or are too short
BrokenSheet ==
    <<SalesHeader,
      <<TsToday, <<"1", "1">>, <<"A", "l">>, <<"M", "o">>, <<"J", "o">>, <<"O", "m", "n", "i">>, <<"1", "G">>>>,
      <<TsOtherZone, <<"1", "1">>, <<"A", "l">>, <<"M", "o">>, <<"J", "o">>, <<"O", "m", "n", "i">>, <<"1", "G">>>>,
      <<TsNoSeconds, <<"1", "2">>, <<"R", "e", "p", "p">>, <<"P", "a", "t">>, <<"J", "o">>, <<"O", "m", "n", "i">>, <<"1", "G">>>>,
      <<TsWords, <<"1", "2">>, <<"R", "e", "p", "p">>, <<"P", "a", "t">>, <<"J", "o">>, <<"O", "m", "n", "i">>, <<"1", "G">>>>,
      <<TsToday, <<"1", "1">>, <<"A", "l">>>>,
      <<<<>>, <<"1", "1">>, <<"A", "l">>, <<"M", "o">>, <<"J", "o">>>>>>

QuerySheets == {WindowSheet, DealerSheet, BrokenSheet}

\* Sheet1 with rows written before ids were kept and rows edited by hand: a
\* sale of member 11; a row with the name Al and no id; a row with the id
\* " 11 " and a manager cell of two spaces; a row with neither id nor name;
\* a sale of member 12 with an empty manager cell; a sale of the day before
LegacySheet ==
    <<SalesHeader,
      <<TsToday, <<"1", "1">>, <<"A", "l">>, <<"M", "o">>, <<"J", "o">>>>,
      <<TsToday, <<>>, <<"A", "l">>, <<"M", "o">>, <<"J", "o">>>>,
      <<TsToday, <<" ", "1", "1", " ">>, <<"A", "l">>, <<" ", " ">>>>,
      <<TsToday, <<>>, <<>>, <<"M", "o">>, <<"J", "o">>>>,
      <<TsToday, <<"1", "2">>, <<"R", "e", "p", "p">>, <<>>, <<"J", "o">>>>,
      <<TsYesterday, <<"1", "2">>, <<"R", "e", "p", "p">>, <<"P", "a", "t">>, <<"J", "o">>>>>>

KeySheets == {LegacySheet, DealerSheet}

\* two sales, of member 11 (Al) and of member 12 (Repp)
SaleOfAl ==
    <<TsToday, <<"1", "1">>, <<"A", "l">>, <<"M", "o">>, <<"J", "o">>, <<"O", "m", "n", "i">>, <<"1", "G">>>>

SaleOfRepp ==
    <<TsToday, <<"1", "2">>, <<"R", "e", "p", "p">>, <<"P", "a", "t">>, <<"J", "o">>, <<"O", "m", "n", "i">>, <<"1", "G">>>>

\* first rows somebody may have typed: "Sale TimeStamp" over other titles;
\* titles that hold "rep" only once their cells are stripped and joined;
\* titles without either marker; the marker "Timestamp" in the second cell
HeaderMixedCase == <<<<"S", "a", "l", "e", " ", "T", "i", "m", "e", "S", "t", "a", "m", "p">>, <<"W", "h", "o">>, <<"B", "o", "s", "s">>>>

HeaderAcrossCells == <<<<"W", "h", "e", "n">>, <<" ", "S", "a", "l", "e", "s", " ", "r", "e", " ">>, <<" ", "p", ".", " ", "i", "d">>>>

HeaderUnmarked == <<<<"D", "a", "t", "e">>, <<"W", "h", "o">>>>

HeaderSecondCell == <<<<"I", "d">>, <<"T", "i", "m", "e", "s", "t", "a", "m", "p">>>>

\* Sheet1 as it may stand when it is read: with the header the program
\* expects, without a header, with a sale of Repp first, with each of the
\* typed first rows, with an empty first row, and with the header repeated
\* further down
HeaderSheets ==
    {<<SalesHeader, SaleOfAl, SaleOfRepp>>,
     <<SaleOfAl, SaleOfRepp>>,
     <<SaleOfRepp, SaleOfAl>>,
     <<HeaderMixedCase, SaleOfAl, SaleOfRepp>>,
     <<HeaderAcrossCells, SaleOfAl>>,
     <<HeaderUnmarked, SaleOfAl>>,
     <<HeaderSecondCell, SaleOfAl>>,
     <<<<>>, SaleOfAl>>,
     <<SalesHeader, SaleOfAl, SalesHeader, SaleOfRepp>>}

(***************************************************************************)
(* Queries and reset                                                       *)
(***************************************************************************)
\* interaction.user.guild_permissions.administrator holds of member 11
Administrators == {11}

\* the values of the options of LeaderboardModeSelect and ManagerboardModeSelect
Modes == {"daily", "monthly", "ytd"}

\* the view of a leaderboard prompt: it holds no fields of its own
BoardView(kind, recipient) ==
    [sess |-> 0, id |-> 0, kind |-> kind, recipient |-> recipient, ephemeral |-> TRUE,
     user_id |-> 0, customer_name |-> <<>>, isp |-> <<>>, count |-> 0,
     touched |-> now, expiry |-> now + ViewTimeout(kind), disabled |-> FALSE]

\* a reply that shows counts
Answer(kind, mode, counts) == [kind |-> kind, daily |-> 0, mode |-> mode, counts |-> counts]

\* sum(counts.values())
RECURSIVE SumCounts(_)
SumCounts(counts) ==
    IF DOMAIN counts = {} THEN 0
    ELSE LET k == CHOOSE x \in DOMAIN counts : TRUE
         IN  counts[k] + SumCounts([x \in DOMAIN counts \ {k} |-> counts[x]])

\* get_total_counts() on the rows fetch_sales_rows returned; the four
\* compute_counts calls read the clock at t1, t2, t3 and t4
get_total_counts(rows, t1, t2, t3, t4) ==
    [daily   |-> SumCounts(compute_counts(rows, "daily", "rep", FALSE, t1)),
     monthly |-> SumCounts(compute_counts(rows, "monthly", "rep", FALSE, t2)),
     ytd     |-> SumCounts(compute_counts(rows, "ytd", "rep", FALSE, t3)),
     all     |-> SumCounts(compute_counts(rows, "all", "rep", FALSE, t4))]

\* get_rep_name_map() on the map get_roster_map_cached returned
get_rep_name_map(map) ==
    LET named == {rep_id \in DOMAIN map : Strip(map[rep_id].rep_name) # <<>>}
    IN  [k \in {IntToStr(rep_id) : rep_id \in named} |->
            Strip(map[CHOOSE rep_id \in named : IntToStr(rep_id) = k].rep_name)]

\* the clock readings of a handler that reads the clock n times: the clock
\* may pass a tick between two readings
ClockReadings(n) ==
    {ts \in [1..n -> {now, now + TickSeconds}] : \A i \in 1..(n - 1) : ts[i] <= ts[i + 1]}

\* /leaderboard by member u in channel_id
leaderboard(u, channel_id) ==
    /\ IF ~require_allowed_channel(channel_id)
       THEN reply' = Say("not_allowed") /\ UNCHANGED views
       ELSE /\ views' = views \cup {BoardView("leaderboard", u)}
            /\ reply' = Say("leaderboard_prompt")
    /\ UNCHANGED <<now, ledger, rosterSheet, rosterCache, modals, tasks, sessions>>

\* /managerboard by member u in channel_id
managerboard(u, channel_id) ==
    /\ IF ~require_allowed_channel(channel_id)
       THEN reply' = Say("not_allowed") /\ UNCHANGED views
       ELSE /\ views' = views \cup {BoardView("managerboard", u)}
            /\ reply' = Say("managerboard_prompt")
    /\ UNCHANGED <<now, ledger, rosterSheet, rosterCache, modals, tasks, sessions>>

\* LeaderboardModeSelect.callback: member u selects mode in channel_id. readOk
\* and rosterOk say whether the read of Sheet1 and the read of the roster
\* range (made when counts were found and the cache is not fresh) succeed.
LeaderboardModeSelect_callback(v, u, channel_id, mode, readOk, rosterOk) ==
    /\ Dispatchable(v, u) /\ v.kind = "leaderboard"
    /\ views' = (views \ {v}) \cup {Touch(v)}
    /\ IF ~require_allowed_channel(channel_id)
       THEN reply' = Say("not_allowed") /\ UNCHANGED rosterCache
       ELSE IF ~readOk
       THEN reply' = Say("raised") /\ UNCHANGED rosterCache
       ELSE LET rows == fetch_sales_rows(ledger)
                counts == compute_counts(rows, mode, "rep", TRUE, now)
            IN  IF DOMAIN counts = {}
                THEN reply' = Say("no_sales") /\ UNCHANGED rosterCache
                ELSE LET got == get_roster_map_cached(rosterCache, rosterSheet, now, rosterOk)
                     IN  /\ rosterCache' = got.cache
                         /\ IF got.raised
                            THEN reply' = Say("raised")
                            ELSE reply' = [kind |-> "leaderboard", daily |-> 0, mode |-> mode,
                                           counts |-> counts,
                                           names |-> get_rep_name_map(got.map)]
    /\ UNCHANGED <<now, ledger, rosterSheet, modals, tasks, sessions>>

\* ManagerboardModeSelect.callback: member u selects mode in channel_id
ManagerboardModeSelect_callback(v, u, channel_id, mode, readOk) ==
    /\ Dispatchable(v, u) /\ v.kind = "managerboard"
    /\ views' = (views \ {v}) \cup {Touch(v)}
    /\ IF ~require_allowed_channel(channel_id)
       THEN reply' = Say("not_allowed")
       ELSE IF ~readOk
       THEN reply' = Say("raised")
       ELSE LET rows == fetch_sales_rows(ledger)
                counts == compute_counts(rows, mode, "manager", FALSE, now)
            IN  IF DOMAIN counts = {}
                THEN reply' = Say("no_sales")
                ELSE reply' = Answer("managerboard", mode, counts)
    /\ UNCHANGED <<now, ledger, rosterSheet, rosterCache, modals, tasks, sessions>>

require_admin_channel(channel_id) == channel_id = ADMIN_CHANNEL_ID

require_admin_permission(u) == u \in Administrators

\* /totals by member u in channel_id; ts are the clock readings of the four
\* compute_counts calls
totals(u, channel_id, readOk, ts) ==
    /\ IF ~require_allowed_channel(channel_id)
       THEN reply' = Say("not_allowed")
       ELSE IF ~require_admin_channel(channel_id)
       THEN reply' = Say("admin_channel_only")
       ELSE IF ~require_admin_permission(u)
       THEN reply' = Say("admin_only")
       ELSE IF ~readOk
       THEN reply' = Say("raised")
       ELSE reply' = Answer("totals", "all",
                            get_total_counts(fetch_sales_rows(ledger),
                                             ts[1], ts[2], ts[3], ts[4]))
    /\ UNCHANGED <<now, ledger, rosterSheet, rosterCache, modals, views, tasks, sessions>>

\* /mysales by member u in channel_id; ts are the clock readings of the three
\* compute_counts calls
mysales(u, channel_id, readOk, ts) ==
    /\ IF ~require_allowed_channel(channel_id)
       THEN reply' = Say("not_allowed")
       ELSE IF ~readOk
       THEN reply' = Say("raised")
       ELSE reply' = Answer("my_sales", "all",
                            get_rep_counts(fetch_sales_rows(ledger), u,
                                           ts[1], ts[2], ts[3]))
    /\ UNCHANGED <<now, ledger, rosterSheet, rosterCache, modals, views, tasks, sessions>>

\* /myid by member u in channel_id
myid(u, channel_id) ==
    /\ IF ~require_allowed_channel(channel_id)
       THEN reply' = Say("not_allowed")
       ELSE reply' = [kind |-> "my_id", daily |-> 0, id |-> u]
    /\ UNCHANGED <<now, ledger, rosterSheet, rosterCache, modals, views, tasks, sessions>>

\* /reset that clears Sheet1
reset_clearing_sheet(u, channel_id) ==
    /\ IF ~require_allowed_channel(channel_id)
       THEN reply' = Say("not_allowed") /\ UNCHANGED ledger
       ELSE IF u \notin Administrators
       THEN reply' = Say("admin_only") /\ UNCHANGED ledger
       ELSE reply' = Say("reset_complete") /\ ledger' = <<>>
    /\ UNCHANGED <<now, rosterSheet, rosterCache, modals, views, tasks, sessions>>

\* /reset by member u in channel_id
reset(u, channel_id) ==
    /\ IF ~require_allowed_channel(channel_id)
       THEN reply' = Say("not_allowed")
       ELSE IF u \notin Administrators
       THEN reply' = Say("admin_only")
       ELSE reply' = Say("reset_complete")
    /\ UNCHANGED <<now, ledger, rosterSheet, rosterCache, modals, views, tasks, sessions>>

(***************************************************************************)
(* The system                                                              *)
(***************************************************************************)
\* The store calls of PlanSelect.callback either all succeed or one of them
\* fails; the calls after a failed one are not made.
StoreOutcomes ==
    {[roster |-> TRUE, append |-> TRUE, read |-> TRUE],
     [roster |-> FALSE, append |-> TRUE, read |-> TRUE],
     [roster |-> TRUE, append |-> FALSE, read |-> TRUE],
     [roster |-> TRUE, append |-> TRUE, read |-> FALSE]}

\* The sale flow: at most MaxSessions commands are issued, and a step that
\* opens a prompt is taken while fewer than MaxViews prompts stand.
SaleStep ==
    \/ \E u \in Users, c \in SaleChannels :
           Len(sessions) < MaxSessions /\ sale(u, c)
    \/ \E m \in modals, c \in SaleChannels, name \in CustomerNames :
           Cardinality(views) < MaxViews /\ CustomerModal_on_submit(m, c, name)
    \/ \E v \in views, u \in Users, c \in SaleChannels, isp \in ProviderInputs :
           Cardinality(views) < MaxViews /\ ISPButtons_pick(v, u, c, isp)
    \/ \E v \in views, u \in Users, c \in SaleChannels, plan \in PlanInputs, o \in StoreOutcomes :
           PlanSelect_callback(v, u, c, plan, o.roster, o.append, o.read)

BulkStep ==
    \/ \E u \in Users, c \in Channels :
           Len(sessions) < MaxSessions /\ bulklog(u, c)
    \/ \E m \in modals, c \in Channels, text \in CountInputs :
           Cardinality(views) < MaxViews /\ BulkCountModal_on_submit(m, c, text)
    \/ \E v \in views, u \in Users, c \in Channels, isp \in ProviderInputs :
           BulkISPView_submit(v, u, c, isp)
    \/ \E i \in 1..MaxTasks, appendOk \in BOOLEAN : BulkISPView_submit_append(i, appendOk)
    \/ \E i \in 1..MaxTasks, editOk \in BOOLEAN : BulkISPView_submit_disable(i, editOk)

StoreEdit ==
    \/ \E r \in RosterSheets : RosterEdit(r)
    \/ \E r \in HandRows : SheetAddRow(r)
    \/ \E i \in 1..MaxRows : SheetDeleteRow(i)

\* The wizards, over a store nobody edits by hand.
Next == Tick \/ SaleStep \/ BulkStep

Spec == Init /\ [][Next]_vars

\* The wizards, with the spreadsheet edited by hand in between.
NextEdited == Next \/ StoreEdit

SpecEdited == Init /\ [][NextEdited]_vars

\* The wizards while administrators edit the Roster sheet: every operation of
\* the system that touches the store, and nobody writing Sheet1 by hand.
NextSystem == Next \/ \E r \in RosterSheets : RosterEdit(r)

SpecSystem == Init /\ [][NextSystem]_vars

\* The sale flow while administrators edit the Roster sheet.
NextRoster == Tick \/ SaleStep \/ \E r \in RosterSheets : RosterEdit(r)

SpecRoster == Init /\ [][NextRoster]_vars

\* Two sale sessions side by side
MaxPairSessions == 2

MaxPairViews == 4

\* what is entered in the n-th session started: each session has a customer,
\* a provider and a plan of its own
PairCustomer(n) == IF n = 1 THEN <<"J", "o">> ELSE <<"d", "e", "a", "l", "e", "r">>

PairProvider(n) ==
    IF n = 1 THEN <<"A", "s", "t", "o", "u", "n", "d">> ELSE <<"Q", "u", "a", "n", "t", "u", "m">>

PairPlan(n) == IF n = 1 THEN <<"1", "G">> ELSE <<"5", "0", "0", "m", "b", "p", "s">>

\* Sale sessions of the same member or of different members, started in the
\* sales channel and driven step by step in any order.
NextPair ==
    \/ \E u \in Users :
           Len(sessions) < MaxPairSessions /\ sale(u, SALES_CHANNEL_ID)
    \/ \E m \in modals :
           /\ Cardinality(views) < MaxPairViews
           /\ CustomerModal_on_submit(m, SALES_CHANNEL_ID, PairCustomer(m.sess))
    \/ \E v \in views, u \in Users :
           /\ Cardinality(views) < MaxPairViews
           /\ ISPButtons_pick(v, u, SALES_CHANNEL_ID, PairProvider(v.sess))
    \/ \E v \in views, u \in Users :
           PlanSelect_callback(v, u, SALES_CHANNEL_ID, PairPlan(v.sess), TRUE, TRUE, TRUE)

SpecPair == Init /\ [][NextPair]_vars

\* The queries, run on a Sheet1 that holds rows already.
InitQuery ==
    /\ now = 0
    /\ ledger \in QuerySheets
    /\ rosterSheet \in RosterSheets
    /\ rosterCache = [ts |-> 0, map |-> EmptyMap]
    /\ modals = {}
    /\ views = {}
    /\ tasks = <<>>
    /\ reply = NoReply
    /\ sessions = <<>>

\* the channels queries arrive from
QueryChannels == {SALES_CHANNEL_ID, ADMIN_CHANNEL_ID, 9}

QueryStep ==
    \/ \E u \in Users, c \in QueryChannels :
           Cardinality(views) < MaxViews /\ leaderboard(u, c)
    \/ \E u \in Users, c \in QueryChannels :
           Cardinality(views) < MaxViews /\ managerboard(u, c)
    \/ \E v \in views, u \in Users, c \in QueryChannels, mode \in Modes, readOk, rosterOk \in BOOLEAN :
           LeaderboardModeSelect_callback(v, u, c, mode, readOk, rosterOk)
    \/ \E v \in views, u \in Users, c \in QueryChannels, mode \in Modes, readOk \in BOOLEAN :
           ManagerboardModeSelect_callback(v, u, c, mode, readOk)
    \/ \E u \in Users, c \in QueryChannels, readOk \in BOOLEAN, ts \in ClockReadings(4) :
           totals(u, c, readOk, ts)
    \/ \E u \in Users, c \in QueryChannels, readOk \in BOOLEAN, ts \in ClockReadings(3) :
           mysales(u, c, readOk, ts)
    \/ \E u \in Users, c \in QueryChannels : myid(u, c)
    \/ \E u \in Users, c \in QueryChannels : reset(u, c)

NextQuery == Tick \/ QueryStep

SpecQuery == InitQuery /\ [][NextQuery]_vars

\* The counting queries alone: an administrator asks for both leaderboards in
\* the sales channel and for the totals in the admin channel while time
\* passes; the store answers.
CountStep ==
    \/ \E u \in Administrators :
           Cardinality(views) < MaxViews /\ leaderboard(u, SALES_CHANNEL_ID)
    \/ \E u \in Administrators :
           Cardinality(views) < MaxViews /\ managerboard(u, SALES_CHANNEL_ID)
    \/ \E v \in views, u \in Administrators, mode \in Modes :
           LeaderboardModeSelect_callback(v, u, SALES_CHANNEL_ID, mode, TRUE, TRUE)
    \/ \E v \in views, u \in Administrators, mode \in Modes :
           ManagerboardModeSelect_callback(v, u, SALES_CHANNEL_ID, mode, TRUE)
    \/ \E u \in Administrators, ts \in ClockReadings(4) :
           totals(u, ADMIN_CHANNEL_ID, TRUE, ts)

NextCounts == Tick \/ CountStep

SpecCounts == InitQuery /\ [][NextCounts]_vars

\* Every command side by side, without the passing of time: one capture in
\* the sales channel or one bulk capture in a dealer channel, with the values
\* of the first session of a pair, next to the queries and /reset.
CaptureStep ==
    \/ \E u \in Users :
           Len(sessions) < MaxSessions /\ sale(u, SALES_CHANNEL_ID)
    \/ \E m \in modals :
           /\ Cardinality(views) < MaxViews
           /\ CustomerModal_on_submit(m, SALES_CHANNEL_ID, PairCustomer(1))
    \/ \E v \in views, u \in Users :
           /\ Cardinality(views) < MaxViews
           /\ ISPButtons_pick(v, u, SALES_CHANNEL_ID, PairProvider(1))
    \/ \E v \in views, u \in Users, appendOk \in BOOLEAN :
           PlanSelect_callback(v, u, SALES_CHANNEL_ID, PairPlan(1), TRUE, appendOk, TRUE)
    \/ \E u \in Users :
           Len(sessions) < MaxSessions /\ bulklog(u, THE_BAKERY_CHANNEL_ID)
    \/ \E m \in modals :
           /\ Cardinality(views) < MaxViews
           /\ BulkCountModal_on_submit(m, THE_BAKERY_CHANNEL_ID, <<"2">>)
    \/ \E v \in views, u \in Users :
           BulkISPView_submit(v, u, THE_BAKERY_CHANNEL_ID, PairProvider(1))
    \/ \E i \in 1..MaxTasks, appendOk \in BOOLEAN : BulkISPView_submit_append(i, appendOk)
    \/ \E i \in 1..MaxTasks : BulkISPView_submit_disable(i, TRUE)

CommandStep ==
    \/ \E u \in Administrators :
           Cardinality(views) < MaxViews /\ leaderboard(u, SALES_CHANNEL_ID)
    \/ \E u \in Administrators :
           Cardinality(views) < MaxViews /\ managerboard(u, SALES_CHANNEL_ID)
    \/ \E v \in views, u \in Administrators, mode \in Modes :
           LeaderboardModeSelect_callback(v, u, SALES_CHANNEL_ID, mode, TRUE, TRUE)
    \/ \E v \in views, u \in Administrators, mode \in Modes :
           ManagerboardModeSelect_callback(v, u, SALES_CHANNEL_ID, mode, TRUE)
    \/ \E u \in Administrators, ts \in ClockReadings(4) :
           totals(u, ADMIN_CHANNEL_ID, TRUE, ts)
    \/ \E u \in Users, ts \in ClockReadings(3) : mysales(u, SALES_CHANNEL_ID, TRUE, ts)
    \/ \E u \in Users : myid(u, SALES_CHANNEL_ID)
    \/ \E u \in Users, c \in SaleChannels : reset(u, c)

NextCommands == CaptureStep \/ CommandStep

SpecCommands == Init /\ [][NextCommands]_vars

\* The captures at other instants than the first: the process clock reads,
\* for the whole capture, a second around midnight or in the morning after
\* the last day of 2024, new year's day of 2025, the 30th of January 2025 or
\* the 27th of February 2025 (all in eastern standard time).
CodecDays == {0, 1, 30, 58}

CodecSeconds == {0, 119, 120, 121, 32827, 86399}

Instants == {d * 86400 + sec : d \in CodecDays, sec \in CodecSeconds}

InitAnyTime ==
    /\ now \in Instants
    /\ ledger \in {<<>>, <<SalesHeader>>}
    /\ rosterSheet \in RosterSheets
    /\ rosterCache = [ts |-> 0, map |-> EmptyMap]
    /\ modals = {}
    /\ views = {}
    /\ tasks = <<>>
    /\ reply = NoReply
    /\ sessions = <<>>

SpecCodec == InitAnyTime /\ [][CaptureStep]_vars

\* The readers of the roster side by side while time passes and
\* administrators edit the Roster sheet: captures, and the rep leaderboard
\* asked for by an administrator in the sales channel.
BoardStep ==
    \/ \E u \in Administrators :
           Cardinality(views) < MaxViews /\ leaderboard(u, SALES_CHANNEL_ID)
    \/ \E v \in views, u \in Administrators, mode \in Modes, rosterOk \in BOOLEAN :
           LeaderboardModeSelect_callback(v, u, SALES_CHANNEL_ID, mode, TRUE, rosterOk)

NextReaders == Tick \/ CaptureStep \/ BoardStep \/ \E r \in RosterSheets : RosterEdit(r)

SpecReaders == Init /\ [][NextReaders]_vars

\* The counting queries on a Sheet1 whose first row is one of many kinds.
InitHeader ==
    /\ now = 0
    /\ ledger \in HeaderSheets
    /\ rosterSheet \in RosterSheets
    /\ rosterCache = [ts |-> 0, map |-> EmptyMap]
    /\ modals = {}
    /\ views = {}
    /\ tasks = <<>>
    /\ reply = NoReply
    /\ sessions = <<>>

SpecHeader == InitHeader /\ [][NextCounts]_vars

\* The counting queries on a Sheet1 with rows of every kind of key.
InitKeys ==
    /\ now = 0
    /\ ledger \in KeySheets
    /\ rosterSheet \in RosterSheets
    /\ rosterCache = [ts |-> 0, map |-> EmptyMap]
    /\ modals = {}
    /\ views = {}
    /\ tasks = <<>>
    /\ reply = NoReply
    /\ sessions = <<>>

SpecKeys == InitKeys /\ [][NextCounts]_vars

\* The two commands that compute several windows for one answer, with the
\* clock advancing between their window computations.
WindowStep ==
    \/ \E u \in Administrators, ts \in ClockReadings(4) :
           totals(u, ADMIN_CHANNEL_ID, TRUE, ts)
    \/ \E u \in Users, ts \in ClockReadings(3) :
           mysales(u, SALES_CHANNEL_ID, TRUE, ts)

NextWindows == Tick \/ WindowStep

SpecWindows == InitQuery /\ [][NextWindows]_vars

(***************************************************************************)
(* The capture wizard                                                      *)
(***************************************************************************)
\* C1: when a session receives a customer name, then a provider, then a plan,
\* all in an allowed channel, the roster the handler resolved holds an active
\* entry with a manager for the caller and the append succeeds, the ledger
\* grows by exactly one row: Customer, ISP and Plan are the three inputs, RepId
\* is the caller's id, Manager the resolved manager and the timestamp the
\* encoding of the instant of the commit. The provider prompt carries the
\* submitted name and the plan prompt the name and the provider pressed.
C1_CommitAppendsOneRow ==
    [][/\ \A m \in modals, c \in SaleChannels, name \in CustomerNames :
              (c \in ALLOWED_CHANNEL_IDS /\ CustomerModal_on_submit(m, c, name))
              => \E w \in views' \ views :
                     w.kind = "isp" /\ w.sess = m.sess /\ w.customer_name = name
       /\ \A v \in views, u \in Users, c \in SaleChannels, isp \in ProviderInputs :
              (c \in ALLOWED_CHANNEL_IDS /\ ISPButtons_pick(v, u, c, isp))
              => \E w \in views' \ views :
                     /\ w.kind = "plan" /\ w.sess = v.sess
                     /\ w.customer_name = v.customer_name /\ w.isp = isp
       /\ \A v \in views, u \in Users, c \in SaleChannels, q \in PlanInputs, o \in StoreOutcomes :
              ( /\ c \in ALLOWED_CHANNEL_IDS
                /\ o.roster /\ o.append
                /\ PlanSelect_callback(v, u, c, q, o.roster, o.append, o.read)
                /\ u \in DOMAIN rosterCache'.map
                /\ rosterCache'.map[u].active )
              => /\ Len(ledger') = Len(ledger) + 1
                 /\ SubSeq(ledger', 1, Len(ledger)) = ledger
                 /\ LET row == ledger'[Len(ledger')]
                    IN  /\ Len(row) = 7
                        /\ row[1] = FormatET(NowET(now))
                        /\ row[2] = IntToStr(u)
                        /\ row[4] = rosterCache'.map[u].manager
                        /\ row[5] = v.customer_name
                        /\ row[6] = v.isp
                        /\ row[7] = q]_vars

\* A sale of member 11 was committed: the last row holds the customer "Jo",
\* the provider Astound, the plan 1G and the manager "Mo".
C1_Witness ==
    /\ reply.kind = "sale_logged"
    /\ ledger # <<>>
    /\ LET row == ledger[Len(ledger)]
       IN  /\ row[2] = <<"1", "1">>
           /\ row[4] = <<"M", "o">>
           /\ row[5] = <<"J", "o">>
           /\ row[6] = <<"A", "s", "t", "o", "u", "n", "d">>
           /\ row[7] = <<"1", "G">>

\* C2: a session that has committed cannot be advanced again, so each session
\* started by one /sale appends at most one row.
C2_AtMostOneRowPerSession ==
    \A s \in 1..Len(sessions) : sessions[s].kind = "sale" => sessions[s].rows <= 1

\* C3: if at the final step the roster the handler resolved holds no entry for
\* the caller, or an inactive one, the caller is sent the corrective message
\* and the ledger is unchanged.
C3_UnresolvedIdentityBlocksCommit ==
    [][\A v \in views, u \in Users, c \in SaleChannels, q \in PlanInputs, o \in StoreOutcomes :
           ( /\ c \in ALLOWED_CHANNEL_IDS
             /\ o.roster
             /\ PlanSelect_callback(v, u, c, q, o.roster, o.append, o.read)
             /\ \/ u \notin DOMAIN rosterCache'.map
                \/ ~rosterCache'.map[u].active )
           => /\ reply'.kind = "no_manager"
              /\ ledger' = ledger
              /\ sessions' = sessions]_vars

\* The owner of the session is marked inactive in the roster and was told so
\* at the plan step; no row was written.
C3_Witness ==
    /\ reply.kind = "no_manager"
    /\ sessions # <<>>
    /\ sessions[1].owner \in DOMAIN rosterCache.map
    /\ ~rosterCache.map[sessions[1].owner].active
    /\ sessions[1].rows = 0
    /\ \A i \in 1..Len(ledger) : ledger[i] = SalesHeader

\* C4: if the append fails at the final step, the caller is sent the failure
\* message, the ledger is unchanged, nothing is counted for the session, and
\* the session's plan prompt stays usable with the same customer and provider,
\* so that the caller can select a plan again.
C4_AppendFailureKeepsPlanStep ==
    [][\A v \in views, u \in Users, c \in SaleChannels, q \in PlanInputs, o \in StoreOutcomes :
           ( /\ c \in ALLOWED_CHANNEL_IDS
             /\ o.roster /\ ~o.append
             /\ PlanSelect_callback(v, u, c, q, o.roster, o.append, o.read)
             /\ u \in DOMAIN rosterCache'.map
             /\ rosterCache'.map[u].active )
           => /\ reply'.kind = "append_failed"
              /\ ledger' = ledger
              /\ sessions' = sessions
              /\ \E w \in views' :
                     /\ w.kind = "plan" /\ w.sess = v.sess
                     /\ w.customer_name = v.customer_name /\ w.isp = v.isp
                     /\ w.recipient = u /\ ~w.disabled
                     /\ now' < w.expiry]_vars

\* An append failed: the caller holds the failure message and a plan prompt of
\* the session that accepts a selection, and no row was written.
C4_Witness ==
    /\ reply.kind = "append_failed"
    /\ \E w \in views : w.kind = "plan" /\ Dispatchable(w, sessions[w.sess].owner)
    /\ sessions[1].rows = 0
    /\ \A i \in 1..Len(ledger) : ledger[i] = SalesHeader

\* C5: no store failure at the final step ends the step without a message to
\* the caller.
C5_StoreFailureSurfaced ==
    [][\A v \in views, u \in Users, c \in SaleChannels, q \in PlanInputs, o \in StoreOutcomes :
           ( /\ ~(o.roster /\ o.append /\ o.read)
             /\ PlanSelect_callback(v, u, c, q, o.roster, o.append, o.read) )
           => reply'.kind # "raised"]_vars

\* C6: a step performed from a channel outside the allowed set opens no next
\* step and appends nothing, whichever step it is.
C6_StepsRecheckChannel ==
    [][/\ \A m \in modals, c \in SaleChannels, name \in CustomerNames :
              (c \notin ALLOWED_CHANNEL_IDS /\ CustomerModal_on_submit(m, c, name))
              => views' = views /\ ledger' = ledger /\ sessions' = sessions
       /\ \A v \in views, u \in Users, c \in SaleChannels, isp \in ProviderInputs :
              (c \notin ALLOWED_CHANNEL_IDS /\ ISPButtons_pick(v, u, c, isp))
              => /\ {w \in views' : w.kind = "plan"} = {w \in views : w.kind = "plan"}
                 /\ ledger' = ledger /\ sessions' = sessions
       /\ \A v \in views, u \in Users, c \in SaleChannels, q \in PlanInputs, o \in StoreOutcomes :
              ( /\ c \notin ALLOWED_CHANNEL_IDS
                /\ PlanSelect_callback(v, u, c, q, o.roster, o.append, o.read) )
              => /\ ledger' = ledger /\ sessions' = sessions
                 /\ reply'.kind = "not_allowed"]_vars

\* A session started in an allowed channel stands at the plan step, and an
\* input from a channel outside the allowed set was just turned away.
C6_Witness ==
    /\ reply.kind = "not_allowed"
    /\ sessions # <<>> /\ sessions[1].kind = "sale" /\ sessions[1].rows = 0
    /\ \E w \in views : w.kind = "plan"

\* C7: the provider step and the plan step of a session are taken only by the
\* member who started it.
C7_OnlyOwnerAdvances ==
    [][\A v \in views, u \in Users, c \in SaleChannels :
           ( \/ \E isp \in ProviderInputs : ISPButtons_pick(v, u, c, isp)
             \/ \E q \in PlanInputs, o \in StoreOutcomes :
                    PlanSelect_callback(v, u, c, q, o.roster, o.append, o.read) )
           => u = sessions[v.sess].owner]_vars

\* The owner committed a sale; the provider and plan prompts are still live
\* and the other member's input is not delivered to either.
C7_Witness ==
    /\ sessions # <<>> /\ sessions[1].kind = "sale" /\ sessions[1].rows = 1
    /\ \E v \in views : v.kind = "isp" /\ now < v.expiry
    /\ \E v \in views : v.kind = "plan" /\ now < v.expiry
    /\ \A v \in views : \A u \in Users \ {sessions[1].owner} : ~Dispatchable(v, u)

\* C8: an input that arrives more than 120 seconds after the last input of
\* its session (or after the session started) is rejected at whatever step
\* the session is in: the steps that are taken come no later than that.
C8_IdleSessionsExpire ==
    [][/\ \A m \in modals, c \in Channels :
              ( \/ \E name \in CustomerNames : CustomerModal_on_submit(m, c, name)
                \/ \E text \in CountInputs : BulkCountModal_on_submit(m, c, text) )
              => now - m.shown <= ISP_VIEW_TIMEOUT
       /\ \A v \in views, u \in Users, c \in Channels :
              ( \/ \E isp \in ProviderInputs : ISPButtons_pick(v, u, c, isp)
                \/ \E isp \in ProviderInputs : BulkISPView_submit(v, u, c, isp)
                \/ \E q \in PlanInputs, o \in StoreOutcomes :
                       PlanSelect_callback(v, u, c, q, o.roster, o.append, o.read) )
              => now - v.touched <= ViewTimeout(v.kind)]_vars

\* C9: the daily count reported with a commit is the number of rows of the
\* ledger after the append that carry today's date and the caller's id; it
\* counts the row just appended, so it is at least 1.
C9_DailyCountFromLedger ==
    [][\A v \in views, u \in Users, c \in SaleChannels, q \in PlanInputs, o \in StoreOutcomes :
           ( /\ PlanSelect_callback(v, u, c, q, o.roster, o.append, o.read)
             /\ reply'.kind = "sale_logged" )
           => /\ reply'.daily >= 1
              /\ reply'.daily =
                   Cardinality({i \in 1..Len(ledger') :
                       /\ Len(ledger'[i]) >= 2
                       /\ ledger'[i][2] = IntToStr(u)
                       /\ Len(ledger'[i][1]) >= 10
                       /\ SubSeq(ledger'[i][1], 1, 10)
                             = SubSeq(FormatET(NowET(now)), 1, 10)})]_vars

(***************************************************************************)
(* The bulk wizard                                                         *)
(***************************************************************************)
\* C10: in a dealer channel, a bulk session with a valid count N and a
\* provider p whose append succeeds adds exactly N rows in one append; all
\* carry the same timestamp, the customer "Dealer", the provider p, an empty
\* plan and the dealer-group label of the invoking channel as manager. N is
\* the count the prompt was opened with and p the button pressed.
C10_BulkAppendsNRows ==
    [][/\ \A v \in views, u \in Users, c \in Channels, isp \in ProviderInputs :
              (BulkISPView_submit(v, u, c, isp) /\ Len(tasks') > Len(tasks))
              => LET k == tasks'[Len(tasks')]
                 IN  /\ c \in DEALER_CHANNEL_IDS
                     /\ v.count \in 1..MAX_BULK_LOG
                     /\ k.count = v.count /\ k.isp = isp
                     /\ k.channel_id = c /\ k.user = u
       /\ \A i \in 1..Len(tasks) :
              BulkISPView_submit_append(i, TRUE)
              => LET k == tasks[i]
                 IN  /\ Len(ledger') = Len(ledger) + k.count
                     /\ SubSeq(ledger', 1, Len(ledger)) = ledger
                     /\ \A j \in (Len(ledger) + 1)..Len(ledger') :
                            /\ Len(ledger'[j]) = 7
                            /\ ledger'[j][1] = FormatET(NowET(now))
                            /\ ledger'[j][2] = IntToStr(k.user)
                            /\ ledger'[j][4] = DEALER_GROUP_BY_CHANNEL[k.channel_id]
                            /\ ledger'[j][5] = <<"D", "e", "a", "l", "e", "r">>
                            /\ ledger'[j][6] = k.isp
                            /\ ledger'[j][7] = <<>>]_vars

\* A bulk session with the count 2 was logged in the channel of The Bakery:
\* the ledger ends with two equal dealer rows of that group.
C10_Witness ==
    /\ reply.kind = "bulk_logged"
    /\ sessions # <<>> /\ sessions[1].kind = "bulk" /\ sessions[1].rows = 2
    /\ Len(ledger) >= 2
    /\ ledger[Len(ledger)] = ledger[Len(ledger) - 1]
    /\ ledger[Len(ledger)][4] = THE_BAKERY
    /\ ledger[Len(ledger)][5] = <<"D", "e", "a", "l", "e", "r">>
    /\ ledger[Len(ledger)][7] = <<>>

\* C11: a count submission that is not a number, is less than 1 or is more
\* than 200 is answered with the message of that failure (three different
\* messages), opens no provider prompt and appends nothing; the counts 1 and 2
\* open the provider prompt.
C11_BadCountRejected ==
    [][\A m \in modals, c \in DEALER_CHANNEL_IDS, text \in CountInputs :
           BulkCountModal_on_submit(m, c, text)
           => /\ text = <<"x">> => reply'.kind = "not_a_number"
              /\ text \in {<<"0">>, <<"-", "1">>} => reply'.kind = "too_small"
              /\ text = <<"2", "0", "1">> => reply'.kind = "too_large"
              /\ text \in {<<"1">>, <<"2">>} => reply'.kind = "bulk_isp_prompt"
              /\ text \notin {<<"1">>, <<"2">>}
                 => /\ views' = views /\ tasks' = tasks
                    /\ ledger' = ledger /\ sessions' = sessions]_vars

\* The count 201 was submitted in a dealer channel and turned away as too
\* large: the session has no provider prompt and no rows.
C11_Witness ==
    /\ reply.kind = "too_large"
    /\ sessions # <<>> /\ sessions[1].kind = "bulk"
    /\ sessions[1].prompts = 0 /\ sessions[1].rows = 0
    /\ views = {} /\ modals = {}

\* C12: from a channel that is allowed but is no dealer channel, /bulklog
\* opens no count form, a count submission opens no provider prompt and a
\* provider press starts no append; the ledger is unchanged in each case.
C12_BulkStepsCheckDealerChannel ==
    [][/\ \A u \in Users, c \in ALLOWED_CHANNEL_IDS \ DEALER_CHANNEL_IDS :
              bulklog(u, c)
              => /\ modals' = modals /\ sessions' = sessions /\ ledger' = ledger
                 /\ reply'.kind = "dealer_only"
       /\ \A m \in modals, c \in ALLOWED_CHANNEL_IDS \ DEALER_CHANNEL_IDS, text \in CountInputs :
              BulkCountModal_on_submit(m, c, text)
              => /\ views' = views /\ sessions' = sessions /\ ledger' = ledger
                 /\ reply'.kind = "dealer_only"
       /\ \A v \in views, u \in Users, c \in ALLOWED_CHANNEL_IDS \ DEALER_CHANNEL_IDS :
              (\E isp \in ProviderInputs : BulkISPView_submit(v, u, c, isp))
              => /\ tasks' = tasks /\ sessions' = sessions /\ ledger' = ledger
                 /\ reply'.kind = "dealer_only"]_vars

\* A bulk session stands at the provider step, and a provider press from the
\* sales channel was just turned away: nothing is being appended.
C12_Witness ==
    /\ reply.kind = "dealer_only"
    /\ \E v \in views : v.kind = "bulk" /\ now < v.expiry
    /\ tasks = <<>>
    /\ sessions[1].rows = 0

(***************************************************************************)
(* The roster cache                                                        *)
(***************************************************************************)
\* C13: a resolution made less than 120 seconds after the last refresh gives
\* every id the result that refresh gave it, whatever the Roster sheet holds
\* by then and whatever the refresh found (an empty roster included); a
\* resolution made later gives the result derived from the sheet as it is.
C13_ResolutionsWithinTTLAgree ==
    [][\A v \in views, u \in Users, c \in SaleChannels, q \in PlanInputs, o \in StoreOutcomes :
           ( /\ c \in ALLOWED_CHANNEL_IDS
             /\ o.roster
             /\ PlanSelect_callback(v, u, c, q, o.roster, o.append, o.read) )
           => IF NowUnix(now) - rosterCache.ts < 120
              THEN rosterCache'.map = rosterCache.map
              ELSE rosterCache'.map = build_roster_map(SheetValues(rosterSheet))]_vars

\* C14: a resolution made less than 120 seconds after the last refresh does
\* not read the Roster range: it succeeds even when the store is down and
\* leaves the cached snapshot and its time as they were.
C14_OneRosterReadPerInterval ==
    [][\A v \in views, u \in Users, c \in SaleChannels, q \in PlanInputs, o \in StoreOutcomes :
           ( /\ c \in ALLOWED_CHANNEL_IDS
             /\ NowUnix(now) - rosterCache.ts < 120
             /\ PlanSelect_callback(v, u, c, q, o.roster, o.append, o.read) )
           => /\ ~get_roster_map_cached(rosterCache, rosterSheet, now, o.roster).read
              /\ rosterCache' = rosterCache
              /\ ~o.roster => reply'.kind # "raised"]_vars

(***************************************************************************)
(* Sessions side by side                                                   *)
(***************************************************************************)
\* C15: when sale sessions are interleaved step by step, a step of one
\* session leaves the form, the prompts and the selections of every other
\* session as they were, and every row committed holds the customer, the
\* provider and the plan that were entered in one and the same session.
C15_SessionsIndependent ==
    [][/\ \A n \in 1..Len(sessions) :
              ( \/ \E m \in modals :
                       m.sess = n /\ CustomerModal_on_submit(m, SALES_CHANNEL_ID, PairCustomer(n))
                \/ \E v \in views, u \in Users :
                       v.sess = n /\ ISPButtons_pick(v, u, SALES_CHANNEL_ID, PairProvider(n))
                \/ \E v \in views, u \in Users :
                       /\ v.sess = n
                       /\ PlanSelect_callback(v, u, SALES_CHANNEL_ID, PairPlan(n), TRUE, TRUE, TRUE) )
              => /\ {w \in views' : w.sess # n} = {w \in views : w.sess # n}
                 /\ {m \in modals' : m.sess # n} = {m \in modals : m.sess # n}
                 /\ \A k \in 1..Len(sessions) : k # n => sessions'[k] = sessions[k]
       /\ \A i \in 1..Len(ledger') :
              ledger'[i] # SalesHeader
              => \E n \in 1..Len(sessions') :
                     /\ ledger'[i][2] = IntToStr(sessions'[n].owner)
                     /\ ledger'[i][5] = PairCustomer(n)
                     /\ ledger'[i][6] = PairProvider(n)
                     /\ ledger'[i][7] = PairPlan(n)]_vars

\* Two sessions of one member were interleaved and both committed: the ledger
\* holds the row of the second session before the row of the first.
C15_Witness ==
    /\ Len(sessions) = 2 /\ sessions[1].owner = sessions[2].owner
    /\ sessions[1].rows = 1 /\ sessions[2].rows = 1
    /\ Len(ledger) = 2
    /\ ledger[1][5] = PairCustomer(2) /\ ledger[1][6] = PairProvider(2)
    /\ ledger[2][5] = PairCustomer(1) /\ ledger[2][6] = PairProvider(1)

(***************************************************************************)
(* The ledger                                                              *)
(***************************************************************************)
\* C16: every step of the system leaves the ledger as it was or puts rows
\* after its last row, and every row of the ledger has its seven cells, the
\* first six filled: whatever was denied, rejected, unresolved, failed,
\* expired or changed in the roster, the rows appended before stay as they
\* were, in their order, and no partly filled row stands in the ledger.
C16_LedgerAppendOnly ==
    [][/\ \/ ledger' = ledger
          \/ /\ Len(ledger') > Len(ledger)
             /\ SubSeq(ledger', 1, Len(ledger)) = ledger
       /\ \A i \in 1..Len(ledger') :
              /\ Len(ledger'[i]) = 7
              /\ \A j \in 1..6 : ledger'[i][j] # <<>>]_vars

\* A sale was committed, the member was then marked inactive in the roster,
\* and a later selection in the same session was turned away: the row
\* committed before is still the last row of the ledger.
C16_Witness ==
    /\ reply.kind = "no_manager"
    /\ sessions # <<>> /\ sessions[1].kind = "sale" /\ sessions[1].rows = 1
    /\ ledger # <<>>
    /\ Len(ledger[Len(ledger)]) = 7
    /\ ledger[Len(ledger)][2] = IntToStr(sessions[1].owner)

C18_UndecodableRowsSkipped ==
    LET rows == fetch_sales_rows(ledger)
        sound == SelectSeq(rows, LAMBDA r :
                     /\ Len(r) >= 4
                     /\ r[1] \notin {<<>>, TsWords, TsNoSeconds, TsOtherZone})
        asked == {t \in 0..now : t % TickSeconds = 0}
    IN  /\ reply.kind # "raised"
        /\ reply.kind = "leaderboard"
              => \E t \in asked :
                     reply.counts = compute_counts(sound, reply.mode, "rep", TRUE, t)
        /\ reply.kind = "managerboard"
              => \E t \in asked :
                     reply.counts = compute_counts(sound, reply.mode, "manager", FALSE, t)
        /\ reply.kind = "no_sales"
              => \E t \in asked, mode \in Modes :
                     \/ DOMAIN compute_counts(sound, mode, "rep", TRUE, t) = {}
                     \/ DOMAIN compute_counts(sound, mode, "manager", FALSE, t) = {}
        /\ reply.kind = "totals"
              => \E t \in asked :
                     \E ts \in [1..4 -> {t, t + TickSeconds}] :
                         reply.counts = get_total_counts(sound, ts[1], ts[2], ts[3], ts[4])

\* the manager leaderboard of the year was shown for a ledger of seven rows
\* of which one decodes and is wide enough: it shows that row alone
C18_Witness ==
    /\ ledger = BrokenSheet
    /\ reply.kind = "managerboard" /\ reply.mode = "ytd"
    /\ reply.counts = (<<"M", "o">> :> 1)

\* C19: a row that decodes is counted in the daily window exactly when it
\* carries the calendar day the New York clock shows when the handler runs,
\* in the monthly window exactly when it carries that month of that year, in
\* the year-to-date window exactly when it carries that year, and in the
\* all-time total always. Days are compared by their number since 1970 and
\* months by their number since year 0.
C19_WindowsFollowTheClock ==
    [][LET rows == fetch_sales_rows(ledger)
           decoded == SelectSeq(rows, LAMBDA r : Len(r) >= 4 /\ ParseET(r[1]).ok)
           dayNo(dt) == DaysSince1970(dt.year) + DaysBeforeMonth(dt.year, dt.month) + dt.day
           monthNo(dt) == 12 * dt.year + dt.month
           \* day, month and year of each row (the concatenation makes the
           \* sequence a value computed once)
           when == <<>> \o [i \in 1..Len(decoded) |->
                              LET dt == ParseET(decoded[i][1])
                              IN  <<dayNo(dt), monthNo(dt), dt.year>>]
           clock(t) == <<dayNo(NowET(t)), monthNo(NowET(t)), NowET(t).year>>
           inWindow(mode, t) ==
               LET c == clock(t)
               IN  {i \in 1..Len(decoded) :
                       \/ mode = "all"
                       \/ mode = "daily" /\ when[i][1] = c[1]
                       \/ mode = "monthly" /\ when[i][2] = c[2]
                       \/ mode = "ytd" /\ when[i][3] = c[3]}
           plain(r) == ~(Len(r) >= 5 /\ Lower(Strip(r[5])) = <<"d", "e", "a", "l", "e", "r">>)
           expected(mode, key, t, all) ==
               LET in == {i \in inWindow(mode, t) : all \/ plain(decoded[i])}
                   keys == {RowKey(decoded[i], key) : i \in in}
               IN  [k \in keys |-> Cardinality({i \in in : RowKey(decoded[i], key) = k})]
           shown(counts) == IF DOMAIN counts = {} THEN reply'.kind = "no_sales"
                            ELSE reply'.kind \in {"leaderboard", "managerboard"}
                                 /\ reply'.counts = counts
       IN  /\ \A v \in views, u \in Administrators, mode \in Modes :
                  ( /\ now' = now
                    /\ LeaderboardModeSelect_callback(v, u, SALES_CHANNEL_ID, mode, TRUE, TRUE) )
                  => shown(expected(mode, "rep", now, FALSE))
           /\ \A v \in views, u \in Administrators, mode \in Modes :
                  ( /\ now' = now
                    /\ ManagerboardModeSelect_callback(v, u, SALES_CHANNEL_ID, mode, TRUE) )
                  => shown(expected(mode, "manager", now, TRUE))
           \* no /totals step answers with other numbers than these
           /\ \A u \in Administrators, ts \in ClockReadings(4) :
                  ( /\ now' = now /\ reply'.kind = "totals"
                    /\ \/ reply'.counts.daily # Cardinality(inWindow("daily", ts[1]))
                       \/ reply'.counts.monthly # Cardinality(inWindow("monthly", ts[2]))
                       \/ reply'.counts.ytd # Cardinality(inWindow("ytd", ts[3]))
                       \/ reply'.counts.all # Len(decoded) )
                  => ~totals(u, ADMIN_CHANNEL_ID, TRUE, ts)
      ]_vars

\* the rep leaderboard of the day was shown at the first instant for a ledger
\* with rows of today, yesterday, next year, last month and tomorrow: it
\* shows the row of today alone
C19_Witness ==
    /\ ledger = WindowSheet /\ now = 0
    /\ reply.kind = "leaderboard" /\ reply.mode = "daily"
    /\ reply.counts = (<<"1", "1">> :> 1)

(***************************************************************************)
(* Commands that only read                                                 *)
(***************************************************************************)
\* C20: no step of /reset, allowed or refused, of /leaderboard, /managerboard
\* or their selects, of /mysales, /totals or /myid changes Sheet1; a step
\* that changes Sheet1 is the plan step of a capture answering "sale logged"
\* or the append of a bulk capture, and it adds rows below the ones there.
C20_OnlyCommitsWriteLedger ==
    [][ledger' # ledger
         => /\ \A u \in Users, c \in SaleChannels : ~reset(u, c)
            /\ \A u \in Administrators :
                   ~leaderboard(u, SALES_CHANNEL_ID) /\ ~managerboard(u, SALES_CHANNEL_ID)
            /\ \A v \in views, u \in Administrators, mode \in Modes :
                   /\ ~LeaderboardModeSelect_callback(v, u, SALES_CHANNEL_ID, mode, TRUE, TRUE)
                   /\ ~ManagerboardModeSelect_callback(v, u, SALES_CHANNEL_ID, mode, TRUE)
            /\ \A u \in Administrators, ts \in ClockReadings(4) :
                   ~totals(u, ADMIN_CHANNEL_ID, TRUE, ts)
            /\ \A u \in Users, ts \in ClockReadings(3) : ~mysales(u, SALES_CHANNEL_ID, TRUE, ts)
            /\ \A u \in Users : ~myid(u, SALES_CHANNEL_ID)
            /\ Len(ledger') > Len(ledger)
            /\ SubSeq(ledger', 1, Len(ledger)) = ledger
            /\ \/ /\ reply'.kind = "sale_logged"
                  /\ \E v \in views, u \in Users :
                         PlanSelect_callback(v, u, SALES_CHANNEL_ID, PairPlan(1), TRUE, TRUE, TRUE)
               \/ \E i \in 1..MaxTasks : BulkISPView_submit_append(i, TRUE)
      ]_vars

\* an administrator was answered "reset complete" and the row a capture
\* wrote before is still in Sheet1
C20_Witness ==
    /\ reply.kind = "reset_complete"
    /\ \E i \in 1..Len(sessions) :
           sessions[i].rows > 0 /\ Len(ledger) >= sessions[i].rows

(***************************************************************************)
(* The timestamp codec                                                     *)
(***************************************************************************)
\* C21: the timestamp cell a capture or a bulk capture writes decodes, and
\* decodes to the year, month, day, hour, minute and second the New York
\* clock showed when the row was written, in the zone ET.
C21_TimestampRoundTrip ==
    [][Len(ledger') > Len(ledger)
         => \A i \in (Len(ledger) + 1)..Len(ledger') :
                LET dt == ParseET(ledger'[i][1])
                    wall == NowET(now)
                IN  /\ dt.ok
                    /\ <<dt.year, dt.month, dt.day>> = <<wall.year, wall.month, wall.day>>
                    /\ <<dt.hour, dt.minute, dt.second>> = <<wall.hour, wall.minute, wall.second>>
                    /\ dt.tz = wall.tz
      ]_vars

\* a capture wrote its row on the 28th of February 2025 at 09:05:07
C21_Witness ==
    /\ now = 58 * 86400 + 32827
    /\ \E i \in 1..Len(sessions) : sessions[i].kind = "sale" /\ sessions[i].rows = 1
    /\ ledger # <<>>
    /\ ledger[Len(ledger)][1]
         = <<"2", "0", "2", "5", "-", "0", "2", "-", "2", "8", " ",
             "0", "9", ":", "0", "5", ":", "0", "7", " ", "E", "T">>

(***************************************************************************)
(* Readers of the roster                                                   *)
(***************************************************************************)
\* C22: whenever the cached roster changes it becomes the whole map built
\* from the Roster sheet as it is at that step; the names a rep leaderboard
\* shows, the manager a capture writes and the answer "not assigned" come
\* from the map cached before the step or from the map built from the sheet
\* as it is at the step, never from a map that is neither.
C22_ReadersSeeOneRead ==
    [][LET fresh == build_roster_map(SheetValues(rosterSheet))
           seen == {rosterCache.map, fresh}
       IN  /\ rosterCache' # rosterCache
                => rosterCache' = [ts |-> NowUnix(now), map |-> fresh]
           /\ \A v \in views, u \in Administrators, mode \in Modes, rosterOk \in BOOLEAN :
                  ( /\ now' = now /\ reply'.kind = "leaderboard"
                    /\ LeaderboardModeSelect_callback(v, u, SALES_CHANNEL_ID, mode, TRUE, rosterOk) )
                  => \E m \in seen : /\ reply'.names = get_rep_name_map(m)
                                     /\ rosterCache'.map = m
           /\ \A v \in views, u \in Users, appendOk \in BOOLEAN :
                  ( /\ now' = now
                    /\ PlanSelect_callback(v, u, SALES_CHANNEL_ID, PairPlan(1), TRUE, appendOk, TRUE) )
                  => \E m \in seen :
                         /\ rosterCache'.map = m
                         /\ reply'.kind = "no_manager"
                               => ~lookup_manager_for_rep(m, u).found
                         /\ Len(ledger') > Len(ledger)
                               => /\ lookup_manager_for_rep(m, u).found
                                  /\ ledger'[Len(ledger')][4]
                                        = lookup_manager_for_rep(m, u).manager
      ]_vars

\* a rep leaderboard was shown with the names of a roster read earlier, the
\* Roster sheet having been edited since: a stale map, whole
C22_Witness ==
    /\ reply.kind = "leaderboard"
    /\ DOMAIN rosterCache.map # {}
    /\ reply.names = get_rep_name_map(rosterCache.map)
    /\ build_roster_map(SheetValues(rosterSheet)) # rosterCache.map
    /\ rosterCache.ts > NowUnix(0)

C24_OneKeyPerCountedRow ==
    [][LET rows == fetch_sales_rows(ledger)
           blank(cell) == \A i \in 1..Len(cell) : cell[i] = " "
           repKey(r) == IF ~blank(r[2]) THEN Strip(r[2]) ELSE Strip(r[3])
           managerKey(r) == IF ~blank(r[4]) THEN Strip(r[4])
                            ELSE <<"U", "n", "a", "s", "s", "i", "g", "n", "e", "d">>
           counted(mode, exclude, t) ==
               LET today == NowET(t)
               IN  SelectSeq(rows, LAMBDA r : RowCounted(r, mode, exclude, today))
           shown == IF reply'.kind \in {"leaderboard", "managerboard"}
                    THEN reply'.counts ELSE <<>>
       IN  /\ \A v \in views, u \in Administrators, mode \in Modes :
                  ( /\ now' = now
                    /\ LeaderboardModeSelect_callback(v, u, SALES_CHANNEL_ID, mode, TRUE, TRUE) )
                  => LET c == counted(mode, TRUE, now)
                     IN  /\ reply'.kind \in {"leaderboard", "no_sales"}
                         /\ DOMAIN shown = {repKey(c[i]) : i \in 1..Len(c)}
                         /\ \A k \in DOMAIN shown :
                                shown[k] = Cardinality({i \in 1..Len(c) : repKey(c[i]) = k})
                         /\ SumCounts(shown) = Len(c)
           /\ \A v \in views, u \in Administrators, mode \in Modes :
                  ( /\ now' = now
                    /\ ManagerboardModeSelect_callback(v, u, SALES_CHANNEL_ID, mode, TRUE) )
                  => LET c == counted(mode, FALSE, now)
                     IN  /\ reply'.kind \in {"managerboard", "no_sales"}
                         /\ DOMAIN shown = {managerKey(c[i]) : i \in 1..Len(c)}
                         /\ \A k \in DOMAIN shown :
                                shown[k] = Cardinality({i \in 1..Len(c) : managerKey(c[i]) = k})
                         /\ SumCounts(shown) = Len(c)
                         /\ SumCounts(shown)
                              = SumCounts(compute_counts(rows, mode, "rep", FALSE, now))
           \* no /totals step answers with other numbers than these
           /\ \A u \in Administrators, ts \in ClockReadings(4) :
                  ( /\ now' = now /\ reply'.kind = "totals"
                    /\ reply'.counts # [daily   |-> Len(counted("daily", FALSE, ts[1])),
                                        monthly |-> Len(counted("monthly", FALSE, ts[2])),
                                        ytd     |-> Len(counted("ytd", FALSE, ts[3])),
                                        all     |-> Len(counted("all", FALSE, ts[4]))] )
                  => ~totals(u, ADMIN_CHANNEL_ID, TRUE, ts)
      ]_vars

\* the rep leaderboard of the day was shown for the ledger of old and
\* hand-edited rows: two rows under the id 11, one under the name Al, one
\* under the empty key and one under the id 12
C24_Witness ==
    /\ ledger = LegacySheet
    /\ reply.kind = "leaderboard" /\ reply.mode = "daily"
    /\ reply.counts = (<<"1", "1">> :> 2) @@ (<<"A", "l">> :> 1) @@ (<<>> :> 1)
                        @@ (<<"1", "2">> :> 1)

(***************************************************************************)
(* Nested windows                                                          *)
(***************************************************************************)
\* C25: the counts of one /mysales answer satisfy daily <= monthly <= ytd and
\* the counts of one /totals answer satisfy daily <= monthly <= ytd <= all,
\* whatever the clock does between the window computations of the answer.
C25_WindowCountsNested ==
    /\ reply.kind = "my_sales"
           => /\ reply.counts.daily <= reply.counts.monthly
              /\ reply.counts.monthly <= reply.counts.ytd
    /\ reply.kind = "totals"
           => /\ reply.counts.daily <= reply.counts.monthly
              /\ reply.counts.monthly <= reply.counts.ytd
              /\ reply.counts.ytd <= reply.counts.all

(***************************************************************************)
(* One batch per bulk session                                              *)
(***************************************************************************)
\* C26: a bulk session appends at most one batch. A provider choice whose
\* append adds rows to the ledger belongs to a session that has appended no
\* row before, also when the choice was made while an earlier choice on the
\* same prompt was still being handled.
C26_AtMostOneBatchPerSession ==
    [][\A i \in 1..Len(tasks), appendOk \in BOOLEAN :
           (BulkISPView_submit_append(i, appendOk) /\ ledger' # ledger)
           => sessions[tasks[i].sess].rows = 0
      ]_vars

====
